---- MODULE Spec2Model ----
(***************************************************************************)
(* Golf Gamez API server: the game / player / score / side-bet services    *)
(* over the SQLite schema, the GameAuth and rate-limit middleware and the  *)
(* WebSocket registry.  Every SQL statement is one atomic step; a request  *)
(* is a sequence of such steps run by one of the server's goroutines, so   *)
(* requests interleave between statements (no request-spanning             *)
(* transaction exists in the code).                                        *)
(***************************************************************************)
EXTENDS Integers, Sequences, FiniteSets, Bags, TLC

(***************************************************************************)
(* Bounds of the model and program constants.                              *)
(***************************************************************************)
MaxRosterRequests == 2     \* requests served in a run of the roster specification
MaxPlayRequests == 4       \* requests served in a run of the scoring specification
MaxPlayPlayers == 2        \* players of a game of the scoring specification
MaxScoreRequests == 4      \* requests served in a run of the score-value specification
MaxAccessRequests == 2     \* requests served in a run of the access specification
MaxIsolationRequests == 2  \* requests served in a run of the two-game specification
MaxCommits == 2            \* writes committed in a run of the WebSocket specification
MaxPlayers == 4            \* services/score.go:619
MinHole == 1               \* services/score.go:213
MaxHole == 18              \* services/score.go:213
MinStrokes == 1            \* services/score.go:217
MaxStrokes == 20           \* services/score.go:217
MinPutts == 0              \* services/score.go:221
MaxPutts == 10             \* services/score.go:221
StartingCards == 3         \* part_014:818

Games == {"gA"}
Slots == {"r1", "r2"}
NameSeq == <<"Ann", "Bob", "Cy", "Di", "Eve", "Flo", "Gus", "Hal">>
Holes == {1}
StrokeVals == {3, 4}
PuttVals == {2}
NoVal == -1                \* an absent optional field of UpdateScoreRequest (nil)

\* models.GameStatus; "none" stands for "no row in games"
GameStatusSetup == "setup"
GameStatusInProgress == "in_progress"
GameStatusCompleted == "completed"
GameStatusAbandoned == "abandoned"

\* models.SideBetType
SideBetBestNine == "best-nine"
SideBetPuttPuttPoker == "putt-putt-poker"

\* side_bets arrays a CreateGame request may carry (every element is one of
\* the two known values; the code does not reject repetitions)
SideBetChoices ==
    { <<SideBetBestNine>>, <<SideBetPuttPuttPoker, SideBetBestNine>> }

VARIABLES
    games,      \* games table: game id -> [status, side_bets, completed_at];
                \* completed_at is 0 for NULL, else the ordinal of the instant
                \* (time.Now()) it was written at
    players,    \* players table: set of [id, game_id, name, position]
    scores,     \* scores table: set of [player_id, game_id, hole, strokes, putts, updated]
    calcs,      \* side_bet_calculations: set of [game_id, player_id, bet_type]
    cards,      \* putt_putt_poker_cards: bag of [player_id, game_id, action, cards_change, total_cards]
    hands,      \* poker_hands: set of [game_id, player_id]
    nextPid,    \* next player id of the id generator
    req,        \* the request each server goroutine is running
    reply,      \* the response written last: [op, code]
    served,     \* number of requests the goroutines have picked up
    dealOK,     \* a DealPokerCards request has been answered with success
    out         \* what the handler of the last response did besides answering:
                \* [event, warn], the event it broadcast ("" = none) and whether
                \* it logged a failed side-bet update

dbvars == <<games, players, scores, calcs, cards, hands>>
gamevars == <<games, players, scores, calcs, cards, hands, nextPid, req, reply, served, dealOK, out>>

\* the rate limiters (middleware.go)
VARIABLES
    limiters,   \* RateLimit: IP -> level of its bucket
    creators,   \* GameCreationLimit: IP -> level of its bucket
    admitted,   \* IP -> ages (minutes) of the game creations admitted in the window
    rateReply,  \* the outcome of the last request: [ip, kind, code]
    rateServed  \* number of requests so far

ratevars == <<limiters, creators, admitted, rateReply, rateServed>>

\* the WebSocket registry (WebSocketService)
VARIABLES
    clients,    \* registry: room -> set of connections (empty = no entry)
    conn,       \* connection -> [open, path]: path is the game of the upgrade request
    got,        \* connection -> the events written to it, in the order of the writes
    bc,         \* broadcaster -> [pc, game, event, todo, cur, sent, failed]
    writing,    \* connection -> the broadcasters inside conn.WriteMessage on it
    commits     \* number of writes committed to the database

wsvars == <<clients, conn, got, bc, writing, commits>>

\* the middleware chain every request runs through (cmd/api/main.go)
VARIABLES
    chain       \* request -> [pc, depth, ctx, header, log, body]

mwvars == <<chain>>

\* the browser client: the WebSocket manager, the sockets it created and
\* the timers it started
VARIABLES
    mgr,        \* the fields of the Manager
    socks,      \* socket -> [ready, events]: readyState and the events the
                \* browser has queued for its handlers
    timers,     \* timer -> the callback it will run when it fires ("" = not pending)
    wire,       \* the messages handed to send(), in order
    hist        \* what the application and the manager have done so far

clientvars == <<mgr, socks, timers, wire, hist>>

\* the component UI and its helpers (frontend), and the migration runner
VARIABLES
    wss,        \* the WSService helper, its sockets and its sleeping goroutines
    app,        \* the fields of GolfGamezApp
    recent,     \* localStorage: the recent-games list
    mig         \* the database seen by Migrate: bookkeeping table and schema

appvars == <<wss, app, recent, mig>>

vars == <<gamevars, ratevars, wsvars, mwvars, clientvars, appvars>>

(***************************************************************************)
(* Token helpers (pkg/auth/tokens.go).  A token is <<prefix, body, n>>, n   *)
(* the number of characters of its body; the body of the pair generated    *)
(* for game g is g itself.                                                 *)
(***************************************************************************)
ShareTokenPrefix == "gt_"
SpectatorTokenPrefix == "st_"
GameIDPrefix == "game_"
TokenLength == 20          \* pkg/auth/tokens.go:16
TokenTypeShare == "share"
TokenTypeSpectator == "spectator"

\* generateToken(prefix)
ShareToken(g) == <<ShareTokenPrefix, g, TokenLength>>
SpectatorToken(g) == <<SpectatorTokenPrefix, g, TokenLength>>
GenerateGameID(g) == <<GameIDPrefix, g, TokenLength>>

\* tokens a client may present: both tokens of every game created so far
\* (tokens are 20 random characters, handed out by CreateGame), and a forged one
Tokens ==
    LET created == { g \in DOMAIN games : games[g].status # "none" }
    IN { ShareToken(g) : g \in created } \cup { SpectatorToken(g) : g \in created }
         \cup { <<ShareTokenPrefix, "forged", TokenLength>> }

\* the token type, or "" for the error
ValidateTokenFormat(t) ==
    IF t[1] = ShareTokenPrefix
    THEN IF t[3] # TokenLength THEN "" ELSE TokenTypeShare
    ELSE IF t[1] = SpectatorTokenPrefix
    THEN IF t[3] # TokenLength THEN "" ELSE TokenTypeSpectator
    ELSE ""

\* ExtractGameIDFromToken: the type of the token found in the path, or ""
ExtractGameIDFromToken(tokenOrGameID) == ValidateTokenFormat(tokenOrGameID)

validateGameToken_AnyToken(t, tokenType) ==
    LET owners == { g \in DOMAIN games : games[g].status \notin {"none", GameStatusAbandoned} }
    IN IF owners = {} THEN "" ELSE CHOOSE g \in owners : TRUE

\* validateGameToken: the id of the game owning the token, or "" (ErrNoRows)
validateGameToken(t, tokenType) ==
    LET owners == { g \in DOMAIN games :
                      /\ games[g].status # "none"
                      /\ games[g].status # GameStatusAbandoned
                      /\ \/ tokenType = TokenTypeShare /\ ShareToken(g) = t
                         \/ tokenType = TokenTypeSpectator /\ SpectatorToken(g) = t }
    IN IF owners = {} THEN "" ELSE CHOOSE g \in owners : TRUE

ReadMethods == {"GET", "HEAD", "OPTIONS"}
WriteMethods == {"POST", "PUT", "PATCH", "DELETE"}

hasPermission_AllowAll(isShare, method) ==
    method \in ReadMethods \cup WriteMethods

hasPermission(isShare, method) ==
    IF method \in ReadMethods THEN TRUE
    ELSE IF method \in WriteMethods THEN isShare
    ELSE FALSE

(***************************************************************************)
(* Requests.  op is the route's handler, pc the statement it is about to   *)
(* run, the remaining fields are the request's inputs and the handler's    *)
(* local variables.                                                        *)
(***************************************************************************)
Idle ==
    [ op |-> "none", pc |-> "idle", method |-> "", tok |-> <<>>, hdr |-> <<>>,
      game |-> "",
      pid |-> 0, name |-> "", hole |-> 0, strokes |-> NoVal, putts |-> NoVal,
      st |-> "", sbs |-> <<>>, snap |-> <<>>, cnt |-> 0, i |-> 0, j |-> 0,
      late |-> FALSE ]

\* HTTP method of each route under /games/{gameId} (cmd/api/main.go)
MethodOf(op) ==
    CASE op = "StartGame" -> "POST"
      [] op = "CompleteGame" -> "POST"
      [] op = "AddPlayer" -> "POST"
      [] op = "RemovePlayer" -> "DELETE"
      [] op = "RecordScore" -> "POST"
      [] op = "UpdateScore" -> "PUT"
      [] op = "DealPokerCards" -> "POST"
      [] op = "GetGame" -> "GET"
      [] op = "DeleteGame" -> "DELETE"
      [] op = "SpectateGame" -> "GET"
      [] OTHER -> "PATCH"

\* (*APIError).GetHTTPStatus
GetHTTPStatus(code) ==
    CASE code \in {"validation_error", "invalid_handicap", "invalid_hole_number",
                   "invalid_score_values", "missing_required_field"} -> 400
      [] code \in {"game_not_started", "game_already_completed", "future_hole",
                   "invalid_game_state"} -> 400
      [] code \in {"side_bet_not_enabled", "insufficient_holes", "cards_already_dealt",
                   "invalid_putt_count", "game_not_completed"} -> 400
      [] code \in {"player_limit_exceeded", "duplicate_player_name",
                   "score_already_exists"} -> 409
      [] code \in {"resource_not_found", "game_not_found", "player_not_found",
                   "score_not_found"} -> 404
      [] code \in {"invalid_token", "expired_token"} -> 401
      [] code = "insufficient_permissions" -> 403
      [] code = "rate_limit_exceeded" -> 429
      [] code = "service_unavailable" -> 503
      [] OTHER -> 500

\* the response is written and the goroutine is free again
\* the event a handler broadcasts (handlers/player.go, score.go, sidebet.go)
EventOf(op) ==
    CASE op = "AddPlayer" -> "player_added"
      [] op = "RemovePlayer" -> "player_removed"
      [] op = "StartGame" -> "game_started"
      [] op = "CompleteGame" -> "game_completed"
      [] op = "DeleteGame" -> "game_deleted"
      [] op \in {"RecordScore", "UpdateScore"} -> "score_update"
      [] op = "DealPokerCards" -> "side_bet_update"
      [] OTHER -> ""

\* a handler that broadcasts answers a failed service call first
Broadcasts_BeforeCheck(op, code) == EventOf(op)

\* the event a handler broadcasts between its service call and its answer:
\* it returns before the broadcast when the service call failed
Broadcasts(op, code) == IF code = "ok" THEN EventOf(op) ELSE ""

Respond(s, code, warn) ==
    /\ req' = [req EXCEPT ![s] = Idle]
    /\ reply' = [op |-> req[s].op, code |-> code]
    /\ out' = [event |-> Broadcasts(req[s].op, code), warn |-> warn]
    /\ UNCHANGED <<ratevars, wsvars, mwvars, clientvars, appvars>>

Finish(s, code) == Respond(s, code, FALSE)

\* the handler goes on with new locals
Set(s, newReq) ==
    /\ req' = newReq
    /\ UNCHANGED <<reply, out, ratevars, wsvars, mwvars, clientvars, appvars>>

Goto(s, label) == Set(s, [req EXCEPT ![s].pc = label])

(***************************************************************************)
(* Queries shared by the services.                                         *)
(***************************************************************************)
PlayersOf(g) == { p \in players : p.game_id = g }

getPlayerCount(g) == Cardinality(PlayersOf(g))

playerNameExists(g, n) == \E p \in PlayersOf(g) : p.name = n

PlayerInGame(pid, g) == \E p \in players : p.id = pid /\ p.game_id = g

\* ORDER BY position (positions are unique within a game)
RECURSIVE OrderByPosition(_)
OrderByPosition(S) ==
    IF S = {} THEN <<>>
    ELSE LET m == CHOOSE p \in S : \A q \in S : p.position >= q.position
         IN Append(OrderByPosition(S \ {m}), m.id)

\* the UNIQUE(game_id, name), UNIQUE(game_id, position) and FOREIGN KEY
\* constraints of the players table
PlayerInsertOK(g, n, pos) ==
    /\ games[g].status # "none"
    /\ ~ \E p \in PlayersOf(g) : p.name = n \/ p.position = pos

\* ON DELETE CASCADE from players to scores, side-bet rows, cards and hands
RECURSIVE BagWithout(_, _)
BagWithout(B, pid) ==
    LET hit == { e \in BagToSet(B) : e.player_id = pid }
    IN IF hit = {} THEN B
       ELSE LET e == CHOOSE x \in hit : TRUE
            IN BagWithout(B (-) SetToBag({e}), pid)

DeletePlayerCascade(pid) ==
    /\ players' = { p \in players : p.id # pid }
    /\ scores' = { x \in scores : x.player_id # pid }
    /\ calcs' = { x \in calcs : x.player_id # pid }
    /\ cards' = BagWithout(cards, pid)
    /\ hands' = { x \in hands : x.player_id # pid }

(***************************************************************************)
(* GameService.CreateGame: POST /v1/games, no GameAuth.  One INSERT.       *)
(***************************************************************************)
CreateGame(g, sbs) ==
    /\ games[g].status = "none"
    /\ games' = [games EXCEPT ![g] = [status |-> GameStatusSetup, side_bets |-> sbs, completed_at |-> 0]]
    /\ UNCHANGED <<players, scores, calcs, cards, hands, nextPid, req, reply, served, dealOK, out>>
    /\ UNCHANGED <<ratevars, wsvars, mwvars, clientvars, appvars>>

(***************************************************************************)
(* A goroutine picks up a new request for a route under /games/{gameId}.   *)
(***************************************************************************)
CanStart(s) == req[s].pc = "idle"

NewReq(s, op, t) ==
    [Idle EXCEPT !.op = op, !.pc = "auth", !.method = MethodOf(op), !.tok = t]

Begin(s, r) ==
    /\ CanStart(s)
    /\ req' = [req EXCEPT ![s] = r]
    /\ served' = served + 1
    /\ UNCHANGED <<dbvars, nextPid, reply, dealOK, out, ratevars, wsvars, mwvars, clientvars, appvars>>

\* Names and ids matter only up to equality: a request carries a name (a
\* player id) that is in use, or the first name not in use (an id that
\* names no player; ids are 80 random bits, a client cannot name a player
\* that does not exist yet).
NamesInUse ==
    { p.name : p \in players } \cup ({ req[s].name : s \in Slots } \ {""})

FreshNames ==
    LET free == { k \in 1..Len(NameSeq) : NameSeq[k] \notin NamesInUse }
    IN IF free = {} THEN {}
       ELSE { NameSeq[CHOOSE k \in free : \A m \in free : k <= m] }

NameInputs == NamesInUse \cup FreshNames \cup {""}

\* player ids start at 1; 0 names no player
PidInputs == { p.id : p \in players } \cup {0}

\* the holder of a game's share token sends the request
Writers == { ShareToken(g) : g \in DOMAIN games } \cap Tokens

BeginStartGame(s) == \E t \in Writers : Begin(s, NewReq(s, "StartGame", t))

BeginCompleteGame(s) == \E t \in Writers : Begin(s, NewReq(s, "CompleteGame", t))

BeginAddPlayer(s) ==
    \E t \in Writers, n \in NameInputs :
        Begin(s, [NewReq(s, "AddPlayer", t) EXCEPT !.name = n])

BeginRemovePlayer(s) ==
    \E t \in Writers, pid \in PidInputs :
        Begin(s, [NewReq(s, "RemovePlayer", t) EXCEPT !.pid = pid])

BeginRecordScore(s) ==
    \E t \in Writers, pid \in PidInputs, h \in Holes, k \in StrokeVals, u \in PuttVals :
        Begin(s, [NewReq(s, "RecordScore", t) EXCEPT
                    !.pid = pid, !.hole = h, !.strokes = k, !.putts = u])

BeginUpdateScore(s) ==
    \E t \in Writers, pid \in PidInputs, h \in Holes,
       k \in StrokeVals \cup {NoVal}, u \in PuttVals \cup {NoVal} :
        Begin(s, [NewReq(s, "UpdateScore", t) EXCEPT
                    !.pid = pid, !.hole = h, !.strokes = k, !.putts = u])

BeginDealPokerCards(s) ==
    \E t \in Writers :
        Begin(s, [NewReq(s, "DealPokerCards", t) EXCEPT !.late = dealOK])

\* a method with no route under /games/{gameId}
BeginUnrouted(s) == \E t \in Writers : Begin(s, NewReq(s, "Unrouted", t))

\* a request of any route sent with a spectator token or a forged token;
\* GameAuth reads only the token and the method of a request
WriteOps ==
    { "StartGame", "CompleteGame", "AddPlayer", "RemovePlayer", "RecordScore",
      "UpdateScore", "DealPokerCards", "Unrouted" }

BeginNoWriter(s) ==
    \E t \in Tokens \ Writers, op \in WriteOps : Begin(s, NewReq(s, op, t))

(***************************************************************************)
(* middleware.GameAuth                                                     *)
(***************************************************************************)
FirstLabel(op) ==
    CASE op = "StartGame" -> "sg_game"
      [] op = "CompleteGame" -> "cg_game"
      [] op = "AddPlayer" -> "ap_game"
      [] op = "RemovePlayer" -> "rp_game"
      [] op = "RecordScore" -> "rs_game"
      [] op = "UpdateScore" -> "us_get"
      [] op = "DealPokerCards" -> "dp_game"
      [] op = "GetGame" -> "gg_get"
      [] op = "DeleteGame" -> "dg_get"
      [] OTHER -> "no_route"

\* the request field tok is the {gameId} segment of the path, hdr the
\* Authorization header split at the space (<<>> when there is none)
GameAuth(s) ==
    /\ req[s].pc = "auth"
    /\ LET r == req[s]
           inPath == ExtractGameIDFromToken(r.tok) # ""
           bearer == Len(r.hdr) = 2 /\ r.hdr[1] = "Bearer"
           token == IF inPath THEN r.tok ELSE IF bearer THEN r.hdr[2] ELSE <<>>
           tokenType == IF token = <<>> THEN "" ELSE ValidateTokenFormat(token)
           actualGameID == IF tokenType = "" THEN ""
                           ELSE validateGameToken(token, tokenType)
       IN IF tokenType = "" \/ actualGameID = ""
          THEN Finish(s, "invalid_token")
          ELSE IF ~ hasPermission(tokenType = TokenTypeShare, r.method)
          THEN Finish(s, "insufficient_permissions")
          ELSE Set(s, [req EXCEPT ![s].game = actualGameID,
                                  ![s].pc = FirstLabel(r.op)])
    /\ UNCHANGED <<dbvars, nextPid, served, dealOK>>

\* the router answers 405 for a method no route under the subtree accepts
NoRoute(s) ==
    /\ req[s].pc = "no_route"
    /\ Finish(s, "method_not_allowed")
    /\ UNCHANGED <<dbvars, nextPid, served, dealOK>>

(***************************************************************************)
(* PlayerService.AddPlayer                                                 *)
(***************************************************************************)
validateCreatePlayerRequest(n) == n # ""

PlayerLimitReached_OffByOne(cnt) == cnt > MaxPlayers

PlayerLimitReached(cnt) == cnt >= MaxPlayers

\* validateCreatePlayerRequest, then getGameForUpdate and the status check
AddPlayer_Game(s) ==
    /\ req[s].pc = "ap_game"
    /\ LET r == req[s] IN
         IF ~ validateCreatePlayerRequest(r.name) THEN Finish(s, "validation_error")
         ELSE IF games[r.game].status = "none" THEN Finish(s, "resource_not_found")
         ELSE IF games[r.game].status # GameStatusSetup THEN Finish(s, "invalid_game_state")
         ELSE Goto(s, "ap_count")
    /\ UNCHANGED <<dbvars, nextPid, served, dealOK>>

\* getPlayerCount and the limit check
AddPlayer_Count(s) ==
    /\ req[s].pc = "ap_count"
    /\ LET cnt == getPlayerCount(req[s].game) IN
         IF PlayerLimitReached(cnt) THEN Finish(s, "player_limit_exceeded")
         ELSE Set(s, [req EXCEPT ![s].cnt = cnt, ![s].pc = "ap_name"])
    /\ UNCHANGED <<dbvars, nextPid, served, dealOK>>

\* playerNameExists
AddPlayer_Name(s) ==
    /\ req[s].pc = "ap_name"
    /\ IF playerNameExists(req[s].game, req[s].name)
       THEN Finish(s, "duplicate_player_name")
       ELSE Goto(s, "ap_insert")
    /\ UNCHANGED <<dbvars, nextPid, served, dealOK>>

\* GeneratePlayerID, position = playerCount + 1, INSERT INTO players
AddPlayer_Insert(s) ==
    /\ req[s].pc = "ap_insert"
    /\ LET r == req[s]
           position == r.cnt + 1
       IN IF PlayerInsertOK(r.game, r.name, position)
          THEN /\ players' = players \cup
                     { [id |-> nextPid, game_id |-> r.game, name |-> r.name,
                        position |-> position] }
               /\ Finish(s, "ok")
               /\ nextPid' = nextPid + 1
          ELSE /\ Finish(s, "internal_server_error")
               /\ UNCHANGED <<players, nextPid>>
    /\ UNCHANGED <<games, scores, calcs, cards, hands, served, dealOK>>

(***************************************************************************)
(* PlayerService.RemovePlayer                                              *)
(***************************************************************************)
\* getGameForUpdate and the status check
RemovePlayer_Game(s) ==
    /\ req[s].pc = "rp_game"
    /\ LET r == req[s] IN
         IF games[r.game].status = "none" THEN Finish(s, "resource_not_found")
         ELSE IF games[r.game].status # GameStatusSetup THEN Finish(s, "invalid_game_state")
         ELSE Goto(s, "rp_get")
    /\ UNCHANGED <<dbvars, nextPid, served, dealOK>>

\* GetPlayer: verify the player exists
RemovePlayer_Get(s) ==
    /\ req[s].pc = "rp_get"
    /\ IF PlayerInGame(req[s].pid, req[s].game)
       THEN Goto(s, "rp_delete")
       ELSE Finish(s, "resource_not_found")
    /\ UNCHANGED <<dbvars, nextPid, served, dealOK>>

\* DELETE FROM players WHERE id = ? AND game_id = ?
RemovePlayer_Delete(s) ==
    /\ req[s].pc = "rp_delete"
    /\ IF PlayerInGame(req[s].pid, req[s].game)
       THEN /\ DeletePlayerCascade(req[s].pid)
            /\ Goto(s, "rp_list")
       ELSE /\ Finish(s, "resource_not_found")
            /\ UNCHANGED <<players, scores, calcs, cards, hands>>
    /\ UNCHANGED <<games, nextPid, served, dealOK>>

\* reorderPlayerPositions: SELECT id ... ORDER BY position, created_at
RemovePlayer_List(s) ==
    /\ req[s].pc = "rp_list"
    /\ LET ids == OrderByPosition(PlayersOf(req[s].game)) IN
         IF ids = <<>> THEN Finish(s, "ok")
         ELSE Set(s, [req EXCEPT ![s].snap = ids, ![s].i = 1, ![s].pc = "rp_reorder"])
    /\ UNCHANGED <<dbvars, nextPid, served, dealOK>>

\* UPDATE players SET position = i WHERE id = ?; a constraint failure ends
\* the loop and is only logged
RemovePlayer_Reorder(s) ==
    /\ req[s].pc = "rp_reorder"
    /\ LET r == req[s]
           id == r.snap[r.i]
           clash == \E p \in players, q \in players :
                       /\ p.id = id /\ q.id # id
                       /\ q.game_id = p.game_id /\ q.position = r.i
       IN IF clash
          THEN /\ Finish(s, "ok")
               /\ UNCHANGED players
          ELSE /\ players' = { IF p.id = id THEN [p EXCEPT !.position = r.i] ELSE p
                               : p \in players }
               /\ IF r.i = Len(r.snap) THEN Finish(s, "ok")
                  ELSE Set(s, [req EXCEPT ![s].i = r.i + 1])
    /\ UNCHANGED <<games, scores, calcs, cards, hands, nextPid, served, dealOK>>

(***************************************************************************)
(* GameService.StartGame                                                   *)
(***************************************************************************)
\* the CHECK (bet_type IN ('best_nine', 'putt_putt_poker')) of
\* side_bet_calculations
BetTypeCheck(betType) == betType \in {"best_nine", "putt_putt_poker"}

\* CHECK, UNIQUE(player_id, bet_type) and the foreign keys
CalcInsertOK(g, pid, betType) ==
    /\ BetTypeCheck(betType)
    /\ games[g].status # "none"
    /\ \E p \in players : p.id = pid
    /\ ~ \E c \in calcs : c.player_id = pid /\ c.bet_type = betType

\* the foreign keys of putt_putt_poker_cards ('starting' passes its CHECK)
CardInsertOK(g, pid) ==
    /\ games[g].status # "none"
    /\ \E p \in players : p.id = pid

StartingCard(g, pid) ==
    [ player_id |-> pid, game_id |-> g, action |-> "starting",
      cards_change |-> StartingCards, total_cards |-> StartingCards ]

InitLabel(sideBet) ==
    IF sideBet = SideBetPuttPuttPoker THEN "sg_card" ELSE "sg_calc"

\* GetGame: the games row; the status check that follows GetGame depends on
\* this row only
StartGame_Game(s) ==
    /\ req[s].pc = "sg_game"
    /\ LET r == req[s]
           row == games[r.game]
       IN IF row.status = "none" THEN Finish(s, "resource_not_found")
          ELSE IF row.status # GameStatusSetup THEN Finish(s, "invalid_game_state")
          ELSE Set(s, [req EXCEPT ![s].st = row.status, ![s].sbs = row.side_bets,
                                  ![s].pc = "sg_players"])
    /\ UNCHANGED <<dbvars, nextPid, served, dealOK>>

\* GetGame: getGamePlayers, then the check that the game has players
StartGame_Players(s) ==
    /\ req[s].pc = "sg_players"
    /\ LET ids == OrderByPosition(PlayersOf(req[s].game)) IN
         IF Len(ids) = 0 THEN Finish(s, "invalid_game_state")
         ELSE Set(s, [req EXCEPT ![s].snap = ids, ![s].pc = "sg_update"])
    /\ UNCHANGED <<dbvars, nextPid, served, dealOK>>

\* UPDATE games SET status = 'in_progress', started_at, current_hole = 1
StartGame_Update(s) ==
    /\ req[s].pc = "sg_update"
    /\ LET r == req[s] IN
         /\ games' = IF games[r.game].status = "none" THEN games
                     ELSE [games EXCEPT ![r.game].status = GameStatusInProgress]
         /\ Set(s, [req EXCEPT ![s].i = 1, ![s].j = 1,
                       ![s].pc = IF r.sbs = <<>> THEN "sg_ret" ELSE InitLabel(r.sbs[1])])
    /\ UNCHANGED <<players, scores, calcs, cards, hands, nextPid, served, dealOK>>

\* initializeSideBets: the 'starting' card record of the current player
StartGame_Card(s) ==
    /\ req[s].pc = "sg_card"
    /\ LET r == req[s]
           pid == r.snap[r.i]
       IN IF CardInsertOK(r.game, pid)
          THEN /\ cards' = cards (+) SetToBag({StartingCard(r.game, pid)})
               /\ Goto(s, "sg_calc")
          ELSE /\ Goto(s, "sg_ret")
               /\ UNCHANGED cards
    /\ UNCHANGED <<games, players, scores, calcs, hands, nextPid, served, dealOK>>

\* initializeSideBets: INSERT INTO side_bet_calculations for the current
\* (player, side bet); an error ends the loops and is only logged
StartGame_Calc(s) ==
    /\ req[s].pc = "sg_calc"
    /\ LET r == req[s]
           pid == r.snap[r.i]
           bet == r.sbs[r.j]
       IN IF CalcInsertOK(r.game, pid, bet)
          THEN /\ calcs' = calcs \cup
                     { [game_id |-> r.game, player_id |-> pid, bet_type |-> bet] }
               /\ IF r.j < Len(r.sbs)
                  THEN Set(s, [req EXCEPT ![s].j = r.j + 1,
                                          ![s].pc = InitLabel(r.sbs[r.j + 1])])
                  ELSE IF r.i < Len(r.snap)
                  THEN Set(s, [req EXCEPT ![s].i = r.i + 1, ![s].j = 1,
                                          ![s].pc = InitLabel(r.sbs[1])])
                  ELSE Goto(s, "sg_ret")
          ELSE /\ Goto(s, "sg_ret")
               /\ UNCHANGED calcs
    /\ UNCHANGED <<games, players, scores, cards, hands, nextPid, served, dealOK>>

\* return s.GetGame(gameID)
StartGame_Return(s) ==
    /\ req[s].pc = "sg_ret"
    /\ IF games[req[s].game].status = "none"
       THEN Finish(s, "resource_not_found")
       ELSE Finish(s, "ok")
    /\ UNCHANGED <<dbvars, nextPid, served, dealOK>>

(***************************************************************************)
(* GameService.CompleteGame                                                *)
(***************************************************************************)
CompleteGame_Game(s) ==
    /\ req[s].pc = "cg_game"
    /\ LET status == games[req[s].game].status IN
         IF status = "none" THEN Finish(s, "resource_not_found")
         ELSE IF status # GameStatusInProgress THEN Finish(s, "invalid_game_state")
         ELSE Goto(s, "cg_update")
    /\ UNCHANGED <<dbvars, nextPid, served, dealOK>>

\* UPDATE games SET status = 'completed', completed_at, final_results
CompleteGame_Update(s) ==
    /\ req[s].pc = "cg_update"
    /\ LET g == req[s].game IN
         games' = IF games[g].status = "none" THEN games
                  ELSE [games EXCEPT ![g].status = GameStatusCompleted,
                                     ![g].completed_at = @ + 1]
    /\ Finish(s, "ok")
    /\ UNCHANGED <<players, scores, calcs, cards, hands, nextPid, served, dealOK>>

(***************************************************************************)
(* ScoreService.RecordScore                                                *)
(***************************************************************************)
validateScoreRequest_NoPuttCount(hole, strokes, putts) ==
    IF hole < MinHole \/ hole > MaxHole THEN "validation_error"
    ELSE IF strokes < MinStrokes \/ strokes > MaxStrokes THEN "validation_error"
    ELSE IF putts < MinPutts \/ putts > MaxPutts THEN "validation_error"
    ELSE ""

\* validateScoreRequest: "" when the request is valid, else the error code
validateScoreRequest(hole, strokes, putts) ==
    IF hole < MinHole \/ hole > MaxHole THEN "validation_error"
    ELSE IF strokes < MinStrokes \/ strokes > MaxStrokes THEN "validation_error"
    ELSE IF putts < MinPutts \/ putts > MaxPutts THEN "validation_error"
    ELSE IF putts > strokes THEN "invalid_putt_count"
    ELSE ""

ScoreExists(pid, hole) == \E x \in scores : x.player_id = pid /\ x.hole = hole

\* UNIQUE(player_id, hole) and the foreign keys of the scores table
ScoreInsertOK(g, pid, hole) ==
    /\ games[g].status # "none"
    /\ \E p \in players : p.id = pid
    /\ ~ ScoreExists(pid, hole)

RecordScore_Game_AnyStatus(s) ==
    /\ req[s].pc = "rs_game"
    /\ LET r == req[s]
           bad == validateScoreRequest(r.hole, r.strokes, r.putts)
           status == games[r.game].status
       IN IF bad # "" THEN Finish(s, bad)
          ELSE IF status = "none" THEN Finish(s, "resource_not_found")
          ELSE Goto(s, "rs_player")
    /\ UNCHANGED <<dbvars, nextPid, served, dealOK>>

\* validateScoreRequest, then validateScoreBusinessRules: the game's status
RecordScore_Game(s) ==
    /\ req[s].pc = "rs_game"
    /\ LET r == req[s]
           bad == validateScoreRequest(r.hole, r.strokes, r.putts)
           status == games[r.game].status
       IN IF bad # "" THEN Finish(s, bad)
          ELSE IF status = "none" THEN Finish(s, "resource_not_found")
          ELSE IF status # GameStatusInProgress THEN Finish(s, "game_not_started")
          ELSE Goto(s, "rs_player")
    /\ UNCHANGED <<dbvars, nextPid, served, dealOK>>

\* validateScoreBusinessRules: the player belongs to the game
RecordScore_Player(s) ==
    /\ req[s].pc = "rs_player"
    /\ IF PlayerInGame(req[s].pid, req[s].game)
       THEN Goto(s, "rs_exists")
       ELSE Finish(s, "resource_not_found")
    /\ UNCHANGED <<dbvars, nextPid, served, dealOK>>

\* validateScoreBusinessRules: no score yet for (player, hole)
RecordScore_Exists(s) ==
    /\ req[s].pc = "rs_exists"
    /\ IF ScoreExists(req[s].pid, req[s].hole)
       THEN Finish(s, "score_already_exists")
       ELSE Goto(s, "rs_insert")
    /\ UNCHANGED <<dbvars, nextPid, served, dealOK>>

\* INSERT INTO scores
RecordScore_Insert(s) ==
    /\ req[s].pc = "rs_insert"
    /\ LET r == req[s] IN
         IF ScoreInsertOK(r.game, r.pid, r.hole)
         THEN /\ scores' = scores \cup
                    { [player_id |-> r.pid, game_id |-> r.game, hole |-> r.hole,
                       strokes |-> r.strokes, putts |-> r.putts, updated |-> FALSE] }
              /\ Goto(s, "sidebets")
         ELSE /\ Finish(s, "internal_server_error")
              /\ UNCHANGED scores
    /\ UNCHANGED <<games, players, calcs, cards, hands, nextPid, served, dealOK>>

(***************************************************************************)
(* ScoreService.UpdateScore                                                *)
(***************************************************************************)
getScore_AnyGame(g, pid, hole) ==
    { x \in scores : x.player_id = pid /\ x.hole = hole }

getScore(g, pid, hole) ==
    { x \in scores : x.game_id = g /\ x.player_id = pid /\ x.hole = hole }

validateUpdateScoreRequest(strokes, putts) ==
    IF strokes # NoVal /\ (strokes < MinStrokes \/ strokes > MaxStrokes)
    THEN "validation_error"
    ELSE IF putts # NoVal /\ (putts < MinPutts \/ putts > MaxPutts)
    THEN "validation_error"
    ELSE ""

\* getScore, validateUpdateScoreRequest, the merged values and putts <= strokes
UpdateScore_Get(s) ==
    /\ req[s].pc = "us_get"
    /\ LET r == req[s]
           found == getScore(r.game, r.pid, r.hole)
       IN IF found = {} THEN Finish(s, "resource_not_found")
          ELSE LET existing == CHOOSE x \in found : TRUE
                   bad == validateUpdateScoreRequest(r.strokes, r.putts)
                   strokes == IF r.strokes # NoVal THEN r.strokes ELSE existing.strokes
                   putts == IF r.putts # NoVal THEN r.putts ELSE existing.putts
               IN IF bad # "" THEN Finish(s, bad)
                  ELSE IF putts > strokes THEN Finish(s, "invalid_putt_count")
                  ELSE Set(s, [req EXCEPT ![s].strokes = strokes, ![s].putts = putts,
                                          ![s].pc = "us_update"])
    /\ UNCHANGED <<dbvars, nextPid, served, dealOK>>

\* UPDATE scores SET strokes, putts, ..., updated_at WHERE id = ?
UpdateScore_Update(s) ==
    /\ req[s].pc = "us_update"
    /\ LET r == req[s] IN
         scores' = { IF x.player_id = r.pid /\ x.hole = r.hole
                     THEN [x EXCEPT !.strokes = r.strokes, !.putts = r.putts,
                                    !.updated = TRUE]
                     ELSE x : x \in scores }
    /\ Goto(s, "us_ret")
    /\ UNCHANGED <<games, players, calcs, cards, hands, nextPid, served, dealOK>>

\* return s.getScore(gameID, playerID, hole)
UpdateScore_Return(s) ==
    /\ req[s].pc = "us_ret"
    /\ IF getScore(req[s].game, req[s].pid, req[s].hole) = {}
       THEN Finish(s, "resource_not_found")
       ELSE Goto(s, "sidebets")
    /\ UNCHANGED <<dbvars, nextPid, served, dealOK>>

(***************************************************************************)
(* SideBetService.DealPokerCards                                           *)
(***************************************************************************)
SideBetEnabled(sbs, sideBetType) == \E k \in 1..Len(sbs) : sbs[k] = sideBetType

\* the handler fails when the side-bet update fails
AfterSideBets_Fail(err) == IF err THEN "internal_server_error" ELSE "ok"

\* RecordScore and UpdateScore after UpdateSideBetsForScore: an error is
\* logged and the handler goes on to its broadcast and its answer
AfterSideBets(err) == "ok"

\* the handlers of RecordScore and UpdateScore after their service call:
\* UpdateSideBetsForScore reads the game's side bets (isSideBetEnabled) and,
\* with Putt-Putt Poker enabled, calls updatePuttPuttPokerForScore and passes
\* its error on.  (The body of updatePuttPuttPokerForScore is a placeholder
\* that returns no error; err ranges over what its signature returns.)
UpdateSideBetsForScore(s) ==
    /\ req[s].pc = "sidebets"
    /\ LET row == games[req[s].game]
           enabled == row.status # "none" /\ SideBetEnabled(row.side_bets, SideBetPuttPuttPoker)
       IN \E err \in (IF enabled THEN BOOLEAN ELSE {FALSE}) :
             Respond(s, AfterSideBets(err), err)
    /\ UNCHANGED <<dbvars, nextPid, served, dealOK>>

\* getGameForSideBet and the status check
DealPokerCards_Game(s) ==
    /\ req[s].pc = "dp_game"
    /\ LET row == games[req[s].game] IN
         IF row.status = "none" THEN Finish(s, "resource_not_found")
         ELSE IF ~ SideBetEnabled(row.side_bets, SideBetPuttPuttPoker)
         THEN Finish(s, "side_bet_not_enabled")
         ELSE IF row.status # GameStatusCompleted THEN Finish(s, "game_not_completed")
         ELSE Goto(s, "dp_count")
    /\ UNCHANGED <<dbvars, nextPid, served, dealOK>>

\* SELECT COUNT(*) FROM poker_hands WHERE game_id = ?; nothing is dealt or
\* stored, the result is an empty list of hands
DealPokerCards_Count(s) ==
    /\ req[s].pc = "dp_count"
    /\ LET count == Cardinality({ h \in hands : h.game_id = req[s].game }) IN
         IF count > 0
         THEN /\ Finish(s, "cards_already_dealt")
              /\ UNCHANGED dealOK
         ELSE /\ Finish(s, "ok")
              /\ dealOK' = TRUE
    /\ UNCHANGED <<dbvars, nextPid, served>>

(***************************************************************************)
(* GameService.GetGame and the handlers GetGame, DeleteGame, SpectateGame  *)
(***************************************************************************)
\* GameService.GetGame: the lookup by the prefix of the value; the id of the
\* game found, or "" (sql.ErrNoRows)
GetGame(gameIDOrToken) ==
    LET hit == { g \in DOMAIN games :
                   /\ games[g].status # "none"
                   /\ IF gameIDOrToken[1] = ShareTokenPrefix
                      THEN ShareToken(g) = gameIDOrToken
                      ELSE IF gameIDOrToken[1] = SpectatorTokenPrefix
                      THEN SpectatorToken(g) = gameIDOrToken
                      ELSE GenerateGameID(g) = gameIDOrToken }
    IN IF hit = {} THEN "" ELSE CHOOSE g \in hit : TRUE

\* GameHandler.GetGame: GetGame(authCtx.GameID), the games row
GetGame_Get(s) ==
    /\ req[s].pc = "gg_get"
    /\ IF GetGame(GenerateGameID(req[s].game)) = ""
       THEN Finish(s, "resource_not_found")
       ELSE Goto(s, "gg_players")
    /\ UNCHANGED <<dbvars, nextPid, served, dealOK>>

\* GetGame: getGamePlayers, then the response
GetGame_Players(s) ==
    /\ req[s].pc = "gg_players"
    /\ Finish(s, "ok")
    /\ UNCHANGED <<dbvars, nextPid, served, dealOK>>

\* GameService.DeleteGame: "verify game exists", the games row
DeleteGame_Get(s) ==
    /\ req[s].pc = "dg_get"
    /\ IF GetGame(GenerateGameID(req[s].game)) = ""
       THEN Finish(s, "resource_not_found")
       ELSE Goto(s, "dg_players")
    /\ UNCHANGED <<dbvars, nextPid, served, dealOK>>

DeleteGame_Players(s) ==
    /\ req[s].pc = "dg_players"
    /\ Goto(s, "dg_delete")
    /\ UNCHANGED <<dbvars, nextPid, served, dealOK>>

RECURSIVE BagWithoutGame(_, _)
BagWithoutGame(B, g) ==
    LET hit == { e \in BagToSet(B) : e.game_id = g }
    IN IF hit = {} THEN B
       ELSE LET e == CHOOSE x \in hit : TRUE
            IN BagWithoutGame(B (-) SetToBag({e}), g)

\* DELETE FROM games WHERE id = ?, with ON DELETE CASCADE to every table
DeleteGame_Delete(s) ==
    /\ req[s].pc = "dg_delete"
    /\ LET g == req[s].game IN
         IF games[g].status = "none"
         THEN /\ Finish(s, "resource_not_found")
              /\ UNCHANGED dbvars
         ELSE /\ games' = [games EXCEPT ![g] =
                              [status |-> "none", side_bets |-> <<>>, completed_at |-> 0]]
              /\ players' = { p \in players : p.game_id # g }
              /\ scores' = { x \in scores : x.game_id # g }
              /\ calcs' = { x \in calcs : x.game_id # g }
              /\ cards' = BagWithoutGame(cards, g)
              /\ hands' = { x \in hands : x.game_id # g }
              /\ Finish(s, "ok")
    /\ UNCHANGED <<nextPid, served, dealOK>>

SpectateGame_AnyToken(s) ==
    /\ req[s].pc = "sp_check"
    /\ IF ValidateTokenFormat(req[s].tok) = ""
       THEN Finish(s, "invalid_token")
       ELSE Goto(s, "sp_get")
    /\ UNCHANGED <<dbvars, nextPid, served, dealOK>>

\* SpectatorHandler.SpectateGame: the format and the type of the token
SpectateGame_Check(s) ==
    /\ req[s].pc = "sp_check"
    /\ IF ValidateTokenFormat(req[s].tok) # TokenTypeSpectator
       THEN Finish(s, "invalid_token")
       ELSE Goto(s, "sp_get")
    /\ UNCHANGED <<dbvars, nextPid, served, dealOK>>

\* SpectateGame: GetGame(spectatorToken), the games row
SpectateGame_Get(s) ==
    /\ req[s].pc = "sp_get"
    /\ IF GetGame(req[s].tok) = ""
       THEN Finish(s, "resource_not_found")
       ELSE Goto(s, "sp_players")
    /\ UNCHANGED <<dbvars, nextPid, served, dealOK>>

\* SpectateGame: getGamePlayers, then the spectator view
SpectateGame_Players(s) ==
    /\ req[s].pc = "sp_players"
    /\ Finish(s, "ok")
    /\ UNCHANGED <<dbvars, nextPid, served, dealOK>>

(***************************************************************************)
(* The game specification.                                                 *)
(***************************************************************************)
\* the database before the first request
EmptyDB ==
    /\ games = [g \in Games |-> [status |-> "none", side_bets |-> <<>>, completed_at |-> 0]]
    /\ players = {}
    /\ nextPid = 1

\* the database after CreateGame(g, sbs) and k AddPlayer requests served one
\* after the other: players 1..k at positions 1..k
SetupDB(g, sbs, k) ==
    /\ games = [h \in Games |-> IF h = g
                                 THEN [status |-> GameStatusSetup, side_bets |-> sbs, completed_at |-> 0]
                                 ELSE [status |-> "none", side_bets |-> <<>>, completed_at |-> 0]]
    /\ players = { [id |-> i, game_id |-> g, name |-> NameSeq[i], position |-> i]
                   : i \in 1..k }
    /\ nextPid = k + 1

NoRequests ==
    /\ scores = {}
    /\ calcs = {}
    /\ cards = EmptyBag
    /\ hands = {}
    /\ req = [s \in Slots |-> Idle]
    /\ reply = [op |-> "none", code |-> ""]
    /\ served = 0
    /\ dealOK = FALSE
    /\ out = [event |-> "", warn |-> FALSE]

AuthSteps(s) ==
    \/ GameAuth(s)
    \/ NoRoute(s)

AddPlayerSteps(s) ==
    \/ AddPlayer_Game(s)
    \/ AddPlayer_Count(s)
    \/ AddPlayer_Name(s)
    \/ AddPlayer_Insert(s)

RemovePlayerSteps(s) ==
    \/ RemovePlayer_Game(s)
    \/ RemovePlayer_Get(s)
    \/ RemovePlayer_Delete(s)
    \/ RemovePlayer_List(s)
    \/ RemovePlayer_Reorder(s)

StartGameSteps(s) ==
    \/ StartGame_Game(s)
    \/ StartGame_Players(s)
    \/ StartGame_Update(s)
    \/ StartGame_Card(s)
    \/ StartGame_Calc(s)
    \/ StartGame_Return(s)

CompleteGameSteps(s) ==
    \/ CompleteGame_Game(s)
    \/ CompleteGame_Update(s)

ScoreSteps(s) ==
    \/ RecordScore_Game(s)
    \/ RecordScore_Player(s)
    \/ RecordScore_Exists(s)
    \/ RecordScore_Insert(s)
    \/ UpdateScore_Get(s)
    \/ UpdateScore_Update(s)
    \/ UpdateScore_Return(s)
    \/ UpdateSideBetsForScore(s)

DealSteps(s) ==
    \/ DealPokerCards_Game(s)
    \/ DealPokerCards_Count(s)

GameSteps(s) ==
    \/ GetGame_Get(s)
    \/ GetGame_Players(s)
    \/ DeleteGame_Get(s)
    \/ DeleteGame_Players(s)
    \/ DeleteGame_Delete(s)

SpectateSteps(s) ==
    \/ SpectateGame_Check(s)
    \/ SpectateGame_Get(s)
    \/ SpectateGame_Players(s)

(***************************************************************************)
(* Rate limiting (middleware.RateLimit, middleware.GameCreationLimit).     *)
(* golang.org/x/time/rate is a token bucket: NewLimiter(Every(window /     *)
(* requests), requests) starts full with `requests` tokens, gains one      *)
(* token every window / requests and Allow() takes one token when one is   *)
(* there.  Levels are kept in 1/window-th of a token per minute of the     *)
(* window, which makes every quantity an integer: a full bucket holds      *)
(* requests * window, a minute adds `requests`, a request costs `window`.  *)
(***************************************************************************)
GlobalRequests == 1000     \* cmd/api/main.go:75
CreationGames == 10        \* cmd/api/main.go:76
WindowMinutes == 60        \* cmd/api/main.go:76 (time.Hour)
TickMinutes == 15          \* minutes between two instants of the model
MaxRateRequests == 12      \* requests served in a run of the rate specification

IPs == {"ip1"}
RateKinds == {"create", "other"}      \* POST /v1/games, any other request

\* rate.NewLimiter(limit, burst): the bucket is full
NewRateLimiter(requests, window) == requests * window

\* the bucket after d minutes
Advance(level, requests, window, d) ==
    LET full == requests * window
        more == level + d * requests
    IN IF more > full THEN full ELSE more

\* (*rate.Limiter).Allow: is a whole token there
Allow(level, window) == level >= window

RECURSIVE Older(_, _)
Older(ages, d) ==
    IF ages = <<>> THEN <<>>
    ELSE LET rest == Older(Tail(ages), d)
         IN IF Head(ages) + d < WindowMinutes THEN <<Head(ages) + d>> \o rest
            ELSE rest

RateInit ==
    /\ limiters = [ip \in IPs |-> NewRateLimiter(GlobalRequests, WindowMinutes)]
    /\ creators = [ip \in IPs |-> NewRateLimiter(CreationGames, WindowMinutes)]
    /\ admitted = [ip \in IPs |-> <<>>]
    /\ rateReply = [ip |-> "", kind |-> "", code |-> ""]
    /\ rateServed = 0

\* TickMinutes minutes pass
Tick ==
    /\ limiters' = [ip \in IPs |->
                      Advance(limiters[ip], GlobalRequests, WindowMinutes, TickMinutes)]
    /\ creators' = [ip \in IPs |->
                      Advance(creators[ip], CreationGames, WindowMinutes, TickMinutes)]
    /\ admitted' = [ip \in IPs |-> Older(admitted[ip], TickMinutes)]
    /\ UNCHANGED <<rateReply, rateServed, gamevars, wsvars, mwvars, clientvars, appvars>>

\* one request through RateLimit and then GameCreationLimit
RateLimit(ip, kind) ==
    /\ rateServed < MaxRateRequests
    /\ rateServed' = rateServed + 1
    /\ UNCHANGED <<gamevars, wsvars, mwvars, clientvars, appvars>>
    /\ IF ~ Allow(limiters[ip], WindowMinutes)
       THEN /\ rateReply' = [ip |-> ip, kind |-> kind, code |-> "rate_limit_exceeded"]
            /\ UNCHANGED <<limiters, creators, admitted>>
       ELSE /\ limiters' = [limiters EXCEPT ![ip] = @ - WindowMinutes]
            /\ IF kind # "create"
               THEN /\ rateReply' = [ip |-> ip, kind |-> kind, code |-> "ok"]
                    /\ UNCHANGED <<creators, admitted>>
               ELSE IF ~ Allow(creators[ip], WindowMinutes)
               THEN /\ rateReply' = [ip |-> ip, kind |-> kind,
                                     code |-> "rate_limit_exceeded"]
                    /\ UNCHANGED <<creators, admitted>>
               ELSE /\ creators' = [creators EXCEPT ![ip] = @ - WindowMinutes]
                    /\ admitted' = [admitted EXCEPT ![ip] = Append(@, 0)]
                    /\ rateReply' = [ip |-> ip, kind |-> kind, code |-> "ok"]

(***************************************************************************)
(* WebSocketService: the registry of connections and the broadcasts.       *)
(***************************************************************************)
Conns == {"c1", "c2"}
Broadcasters == {"h1", "h2"}          \* handlers that reached their broadcast
WSGames == {"gA", "gB"}
Placeholder == "placeholder"          \* part_014:36
Rooms == WSGames \cup {Placeholder}

NoBroadcast ==
    [pc |-> "idle", game |-> "", event |-> 0, todo |-> {}, cur |-> "",
     sent |-> {}, failed |-> {}]

WSInit ==
    /\ clients = [r \in Rooms |-> {}]
    /\ conn = [c \in Conns |-> [open |-> FALSE, path |-> ""]]
    /\ got = [c \in Conns |-> <<>>]
    /\ bc = [b \in Broadcasters |-> NoBroadcast]
    /\ writing = [c \in Conns |-> {}]
    /\ commits = 0

\* the room HandleWebSocket registers the connection in
RoomOf(pathGame) == Placeholder

addClient(gameID, c) == [clients EXCEPT ![gameID] = @ \cup {c}]

\* removeClient without its delete
removeClient_Keep(gameID, c) == clients

removeClient(gameID, c) == [clients EXCEPT ![gameID] = @ \ {c}]

\* the connections a broadcast in progress holds in its copy of the room
Held(b) ==
    bc[b].todo \cup bc[b].sent \cup bc[b].failed
        \cup (IF bc[b].pc = "writing" THEN {bc[b].cur} ELSE {})

\* HandleWebSocket: the upgrade of a request for /ws/games/{g}, then addClient.
\* The upgrade makes a new *websocket.Conn: it is none of those a broadcast
\* in progress still holds.
HandleWebSocket(c, g) ==
    /\ ~ conn[c].open
    /\ \A b \in Broadcasters : c \notin Held(b)
    /\ conn' = [conn EXCEPT ![c] = [open |-> TRUE, path |-> g]]
    /\ clients' = addClient(RoomOf(g), c)
    /\ got' = [got EXCEPT ![c] = <<>>]
    /\ UNCHANGED <<bc, writing, commits, gamevars, ratevars, mwvars, clientvars, appvars>>

\* the client goes away: ReadMessage fails, the deferred removeClient and
\* conn.Close() run
Disconnect(c) ==
    /\ conn[c].open
    /\ clients' = removeClient(RoomOf(conn[c].path), c)
    /\ conn' = [conn EXCEPT ![c].open = FALSE]
    /\ UNCHANGED <<got, bc, writing, commits, gamevars, ratevars, mwvars, clientvars, appvars>>

\* a handler's service call has returned: its write is committed, the
\* commits-th of the database, and the handler goes on to its broadcast
\* (handlers/score.go:48-64, handlers/player.go:246-255)
Commit(b, g) ==
    /\ bc[b].pc = "idle"
    /\ commits < MaxCommits
    /\ commits' = commits + 1
    /\ bc' = [bc EXCEPT ![b] = [NoBroadcast EXCEPT !.pc = "broadcast", !.game = g,
                                                   !.event = commits + 1]]
    /\ UNCHANGED <<clients, conn, got, writing, gamevars, ratevars, mwvars, clientvars, appvars>>

\* broadcastToGame: the copy of s.clients[gameID] made under the read lock
BroadcastSnapshot(b) ==
    /\ bc[b].pc = "broadcast"
    /\ bc' = [bc EXCEPT ![b].pc = "write", ![b].todo = clients[bc[b].game]]
    /\ UNCHANGED <<clients, conn, got, writing, commits, gamevars, ratevars, mwvars, clientvars, appvars>>

\* broadcastToGame: the write loop takes the next connection of the copy and
\* enters conn.WriteMessage; no lock is held
WriteMessage(b) ==
    /\ bc[b].pc = "write"
    /\ \E c \in bc[b].todo :
          /\ bc' = [bc EXCEPT ![b].pc = "writing", ![b].cur = c, ![b].todo = @ \ {c}]
          /\ writing' = [writing EXCEPT ![c] = @ \cup {b}]
    /\ UNCHANGED <<clients, conn, got, commits, gamevars, ratevars, mwvars, clientvars, appvars>>

\* broadcastToGame: conn.WriteMessage returns.  A write to a closed
\* connection fails; a write to an open one may fail (network).  On an
\* error removeClient and conn.Close() run.
BroadcastWrite(b) ==
    /\ bc[b].pc = "writing"
    /\ LET c == bc[b].cur IN
       \E okWrite \in BOOLEAN :
          /\ writing' = [writing EXCEPT ![c] = @ \ {b}]
          /\ IF okWrite /\ conn[c].open
             THEN /\ got' = [got EXCEPT ![c] = Append(@, bc[b].event)]
                  /\ bc' = [bc EXCEPT ![b].pc = "write", ![b].cur = "",
                                      ![b].sent = @ \cup {c}]
                  /\ UNCHANGED <<clients, conn>>
             ELSE /\ clients' = removeClient(bc[b].game, c)
                  /\ conn' = [conn EXCEPT ![c].open = FALSE]
                  /\ bc' = [bc EXCEPT ![b].pc = "write", ![b].cur = "",
                                      ![b].failed = @ \cup {c}]
                  /\ UNCHANGED got
    /\ UNCHANGED <<commits, gamevars, ratevars, mwvars, clientvars, appvars>>

\* broadcastToGame: conn.WriteMessage panics: two goroutines are inside it on
\* one connection, which the connection does not support (one of the outcomes
\* of the race; the others are those of BroadcastWrite).  The panic ends the
\* handler before the rest of the copy is written to.
WritePanics(b) ==
    /\ bc[b].pc = "writing"
    /\ Cardinality(writing[bc[b].cur]) > 1
    /\ writing' = [writing EXCEPT ![bc[b].cur] = @ \ {b}]
    /\ bc' = [bc EXCEPT ![b] = NoBroadcast]
    /\ UNCHANGED <<clients, conn, got, commits, gamevars, ratevars, mwvars, clientvars, appvars>>

\* broadcastToGame: the write loop is over, the broadcast returns
BroadcastReturns(b) ==
    /\ bc[b].pc = "write"
    /\ bc[b].todo = {}
    /\ bc' = [bc EXCEPT ![b] = NoBroadcast]
    /\ UNCHANGED <<clients, conn, got, writing, commits, gamevars, ratevars, mwvars, clientvars, appvars>>

(***************************************************************************)
(* The middleware chain of cmd/api/main.go.  r.Use(m1); r.Use(m2) makes m1 *)
(* the outer handler: it is called first and calls m2 with the request it  *)
(* chooses to pass on.  A middleware sees the context of the request it    *)
(* was called with; RequestID passes a copy of the request on              *)
(* (r.WithContext), so the id is in the context of the handlers below it   *)
(* only.  ctx[i] is the request_id in the context of the request the i-th  *)
(* handler of the chain was called with.                                   *)
(***************************************************************************)
Middleware == <<"Logger", "Recoverer", "RequestID">>

ChainReqs == {"q1", "q2"}
UUIDs == {"id1", "id2", "id3"}
NoID == ""                 \* r.Context().Value(RequestIDCtxKey).(string) of a context without the key
NoBody == [code |-> "", request_id |-> NoID]

NoChainReq ==
    [pc |-> "idle", depth |-> 0, ctx |-> <<>>, header |-> NoID,
     log |-> <<>>, status |-> 0, body |-> NoBody]

ChainInit == chain = [q \in ChainReqs |-> NoChainReq]

\* the request q is in the middle of
InFlight(q) == chain[q].pc \notin {"idle", "done"}

\* the handler at depth + 1 is called with the request carrying id
Down(q, id) ==
    [chain[q] EXCEPT !.depth = @ + 1, !.ctx = Append(@, id),
                     !.pc = IF chain[q].depth + 1 = Len(Middleware)
                            THEN "handler" ELSE "down"]

\* the server accepts a request and calls the outermost handler
Accept(q) ==
    /\ ~ InFlight(q)
    /\ chain' = [chain EXCEPT ![q] = [NoChainReq EXCEPT !.pc = "down", !.ctx = <<NoID>>]]
    /\ UNCHANGED <<gamevars, ratevars, wsvars, clientvars, appvars>>

\* Logger, up to next.ServeHTTP: the start line carries the id of its request
Logger(q) ==
    LET r == chain[q] IN
    /\ r.pc = "down"
    /\ Middleware[r.depth + 1] = "Logger"
    /\ chain' = [chain EXCEPT ![q] =
          [Down(q, r.ctx[r.depth + 1]) EXCEPT
              !.log = Append(@, [msg |-> "started", request_id |-> r.ctx[r.depth + 1]])]]
    /\ UNCHANGED <<gamevars, ratevars, wsvars, clientvars, appvars>>

\* Recoverer, up to next.ServeHTTP: the deferred function is in place
Recoverer(q) ==
    LET r == chain[q] IN
    /\ r.pc = "down"
    /\ Middleware[r.depth + 1] = "Recoverer"
    /\ chain' = [chain EXCEPT ![q] = Down(q, r.ctx[r.depth + 1])]
    /\ UNCHANGED <<gamevars, ratevars, wsvars, clientvars, appvars>>

\* RequestID: a fresh uuid in the context of the request passed on and in
\* the X-Request-ID header
RequestID(q, requestID) ==
    LET r == chain[q] IN
    /\ r.pc = "down"
    /\ Middleware[r.depth + 1] = "RequestID"
    /\ \A o \in ChainReqs : chain[o].header # requestID
    /\ chain' = [chain EXCEPT ![q] = [Down(q, requestID) EXCEPT !.header = requestID]]
    /\ UNCHANGED <<gamevars, ratevars, wsvars, clientvars, appvars>>

\* the rest of the chain and the route's handler: it answers or it panics
ServeHTTP(q, panics) ==
    LET r == chain[q] IN
    /\ r.pc = "handler"
    /\ chain' = [chain EXCEPT ![q] =
          IF panics THEN [r EXCEPT !.pc = "panic"]
          ELSE [r EXCEPT !.pc = "up", !.status = 200]]
    /\ UNCHANGED <<gamevars, ratevars, wsvars, clientvars, appvars>>

\* the deferred function of Recoverer: recover(), the log line and the
\* error response, both with the id of the context of Recoverer's request
Recoverer_recover(q) ==
    LET r == chain[q]
        requestID == r.ctx[r.depth]
    IN
    /\ r.pc = "panic"
    /\ r.depth > 0
    /\ Middleware[r.depth] = "Recoverer"
    /\ chain' = [chain EXCEPT ![q] =
          [r EXCEPT !.pc = "up", !.depth = @ - 1,
                    !.log = Append(@, [msg |-> "panic", request_id |-> requestID]),
                    !.status = GetHTTPStatus("internal_server_error"),
                    !.body = [code |-> "internal_server_error", request_id |-> requestID]]]
    /\ UNCHANGED <<gamevars, ratevars, wsvars, clientvars, appvars>>

\* Logger, after next.ServeHTTP returned: the completion line
Logger_completed(q) ==
    LET r == chain[q] IN
    /\ r.pc = "up"
    /\ r.depth > 0
    /\ Middleware[r.depth] = "Logger"
    /\ chain' = [chain EXCEPT ![q] =
          [r EXCEPT !.depth = @ - 1,
                    !.log = Append(@, [msg |-> "completed", request_id |-> r.ctx[r.depth]])]]
    /\ UNCHANGED <<gamevars, ratevars, wsvars, clientvars, appvars>>

\* a handler with nothing left to do returns, or a panic leaves a handler
\* that does not recover; at depth 0 net/http has the request back
Unwind(q) ==
    LET r == chain[q] IN
    /\ r.pc \in {"up", "panic"}
    /\ IF r.depth = 0
       THEN chain' = [chain EXCEPT ![q].pc = "done"]
       ELSE /\ ~ (r.pc = "panic" /\ Middleware[r.depth] = "Recoverer")
            /\ ~ (r.pc = "up" /\ Middleware[r.depth] = "Logger")
            /\ chain' = [chain EXCEPT ![q].depth = @ - 1]
    /\ UNCHANGED <<gamevars, ratevars, wsvars, clientvars, appvars>>

(***************************************************************************)
(* The manual-DOM WebSocket manager of the browser client                  *)
(* (frontend websocket.Manager).  The client is single-threaded: a call    *)
(* of the application, the handlers of a socket event and a timer callback *)
(* each run to their end before the next one starts, so each is one step.  *)
(* The methods are functions of the client's state                         *)
(* st = [m, k, t, w]: the manager, the sockets, the timers and the wire.   *)
(*   k[ws] is the readyState of socket ws: 0 CONNECTING, 1 OPEN,           *)
(*         2 CLOSING, 3 CLOSED, -1 for a socket not created yet;           *)
(*   t[id] is the callback a pending timer will run, "" once it has fired  *)
(*         or was stopped, "unused" for a timer not created yet;           *)
(*   0 stands for nil (timers) and for the zero js.Value (websocket).      *)
(* The wire keeps the application's messages only (pings and pongs are     *)
(* not recorded).                                                          *)
(***************************************************************************)
maxRetries == 10               \* part_007:47
MessageQueueLimit == 100       \* part_007:319
MaxSockets == 3                \* sockets created in a run
MaxTimers == 4                 \* timers started in a run
MaxMessages == 2               \* messages the application sends / the server sends
MaxQueued == 102               \* messages of a long series of SendMessage calls
MaxRetrySockets == 13          \* sockets created in a run of reconnections
MaxRetryTimers == 14           \* timers started in a run of reconnections

SockIds == 1..MaxSockets
TimerIds == 1..MaxTimers
AppMessages == <<"m1", "m2", "m3">>
InboundTypes == {"ping", "score_updated"}
CloseCodes == {1000, 1001, 1005}     \* codes of a close handshake

NewManager ==
    [state |-> "Disconnected", retryCount |-> 0, autoReconnect |-> TRUE,
     messageQueue |-> <<>>, reconnectTimer |-> 0, heartbeatTimer |-> 0,
     websocket |-> 0]

\* the history of a run that the properties refer to: attempts counts the sockets created by
\* reconnect timers since the last open event
NoHistory == [closed |-> FALSE, lost |-> "", handed |-> 0, inbound |-> 0, attempts |-> 0]

ClientInit ==
    /\ mgr = NewManager
    /\ socks = [ws \in SockIds |-> -1]
    /\ timers = [id \in TimerIds |-> "unused"]
    /\ wire = <<>>
    /\ hist = NoHistory

Client == [m |-> mgr, k |-> socks, t |-> timers, w |-> wire]

Becomes(st) ==
    /\ mgr' = st.m
    /\ socks' = st.k
    /\ timers' = st.t
    /\ wire' = st.w

SocketsLeft(st) == Cardinality({ ws \in DOMAIN st.k : st.k[ws] = -1 })
TimersLeft(st) == Cardinality({ id \in DOMAIN st.t : st.t[id] = "unused" })

\* js.Global().Get("WebSocket").New(wsURL)
NewWebSocket(st) == CHOOSE ws \in DOMAIN st.k : st.k[ws] = -1 /\ \A o \in 1..(ws - 1) : st.k[o] # -1

\* time.AfterFunc(d, f): a new pending timer
AfterFunc(st) == CHOOSE id \in DOMAIN st.t : st.t[id] = "unused" /\ \A o \in 1..(id - 1) : st.t[o] # "unused"

\* (*time.Timer).Stop
Stop(st, id) == [st EXCEPT !.t[id] = ""]

setState(st, state) == [st EXCEPT !.m.state = state]

connect(st) ==
    LET ws == NewWebSocket(st)
    IN [st EXCEPT !.k[ws] = 0, !.m.websocket = ws]

\* Connect: an error and no effect while Connected or Connecting
Connect(st) ==
    IF st.m.state \in {"Connected", "Connecting"} THEN st
    ELSE connect(setState(st, "Connecting"))

readyState(st) == IF st.m.websocket = 0 THEN -1 ELSE st.k[st.m.websocket]

queueMessage_NoLimit(st, message) ==
    [st EXCEPT !.m.messageQueue = Append(@, message)]

queueMessage(st, message) ==
    LET q == IF Len(st.m.messageQueue) >= MessageQueueLimit
             THEN Tail(st.m.messageQueue) ELSE st.m.messageQueue
    IN [st EXCEPT !.m.messageQueue = Append(q, message)]

SendMessage(st, message) ==
    IF st.m.state # "Connected" THEN queueMessage(st, message)
    ELSE IF readyState(st) # 1 THEN queueMessage(st, message)
    ELSE [st EXCEPT !.w = IF message \in {"ping", "pong"} THEN @ ELSE Append(@, message)]

sendPing(st) == SendMessage(st, "ping")

sendPong(st) == SendMessage(st, "pong")

\* the loop of flushMessageQueue over the queue as it was when the loop began
RECURSIVE SendQueued(_, _)
SendQueued(st, messages) ==
    IF messages = <<>> THEN st
    ELSE SendQueued(SendMessage(st, Head(messages)), Tail(messages))

flushMessageQueue(st) ==
    [SendQueued(st, st.m.messageQueue) EXCEPT !.m.messageQueue = <<>>]

startHeartbeat(st) ==
    LET id == AfterFunc(st)
    IN [st EXCEPT !.m.heartbeatTimer = id, !.t[id] = "heartbeat"]

stopHeartbeat(st) ==
    IF st.m.heartbeatTimer # 0
    THEN [Stop(st, st.m.heartbeatTimer) EXCEPT !.m.heartbeatTimer = 0]
    ELSE st

scheduleReconnection_NoLimit(st) ==
    LET id == AfterFunc(st)
    IN [setState(st, "Reconnecting") EXCEPT
           !.m.retryCount = @ + 1, !.m.reconnectTimer = id, !.t[id] = "reconnect"]

scheduleReconnection(st) ==
    IF st.m.retryCount >= maxRetries THEN st
    ELSE LET id == AfterFunc(st)
         IN [setState(st, "Reconnecting") EXCEPT
                !.m.retryCount = @ + 1, !.m.reconnectTimer = id, !.t[id] = "reconnect"]

\* the callback of the reconnect timer
reconnect(st) == connect(setState(st, "Connecting"))

onOpen(st) ==
    flushMessageQueue(startHeartbeat([setState(st, "Connected") EXCEPT !.m.retryCount = 0]))

onMessageReceived(st, type) ==
    IF type = "ping" THEN sendPong(st) ELSE st

onClose(st, code) ==
    LET s1 == stopHeartbeat(setState(st, "Disconnected"))
    IN IF s1.m.autoReconnect /\ code # 1000 THEN scheduleReconnection(s1) ELSE s1

onError(st) ==
    IF st.m.state = "Connecting"
    THEN scheduleReconnection(setState(st, "Disconnected"))
    ELSE st

Close(st) ==
    LET s1 == [st EXCEPT !.m.autoReconnect = FALSE]
        s2 == IF s1.m.reconnectTimer # 0
              THEN [Stop(s1, s1.m.reconnectTimer) EXCEPT !.m.reconnectTimer = 0]
              ELSE s1
        s3 == stopHeartbeat(s2)
        s4 == IF s3.m.websocket # 0 /\ readyState(s3) < 2
              THEN [s3 EXCEPT !.k[s3.m.websocket] = 2]
              ELSE s3
    IN setState(s4, "Disconnected")

\* stale: time.Since(m.lastHeartbeat) > 2 * heartbeatInterval at the time
\* the callback runs
checkHeartbeat(st, stale) ==
    IF st.m.state # "Connected" THEN st
    ELSE IF stale THEN Close(st)
    ELSE LET s1 == sendPing(st)
             id == AfterFunc(s1)
         IN [s1 EXCEPT !.m.heartbeatTimer = id, !.t[id] = "heartbeat"]

\* --- the steps of the client ---

\* the application calls Connect (a call that returns the error is no step)
AppConnect ==
    /\ mgr.state \notin {"Connected", "Connecting"}
    /\ SocketsLeft(Client) >= 1
    /\ Becomes(Connect(Client))
    /\ hist' = [hist EXCEPT !.closed = FALSE, !.lost = ""]
    /\ UNCHANGED <<gamevars, ratevars, wsvars, mwvars, appvars>>

\* the application calls Close
AppClose ==
    /\ Becomes(Close(Client))
    /\ hist' = [hist EXCEPT !.closed = TRUE, !.lost = ""]
    /\ UNCHANGED <<gamevars, ratevars, wsvars, mwvars, appvars>>

\* the application calls SendMessage with its next message
AppSendMessage ==
    /\ hist.handed < MaxMessages
    /\ Becomes(SendMessage(Client, AppMessages[hist.handed + 1]))
    /\ hist' = [hist EXCEPT !.handed = @ + 1]
    /\ UNCHANGED <<gamevars, ratevars, wsvars, mwvars, appvars>>

\* the application calls SendMessage in a long series: the message is the
\* number of the call
AppSendSeries ==
    /\ hist.handed < MaxQueued
    /\ Becomes(SendMessage(Client, ToString(hist.handed + 1)))
    /\ hist' = [hist EXCEPT !.handed = @ + 1]
    /\ UNCHANGED <<gamevars, ratevars, wsvars, mwvars, appvars>>

\* the connection of socket ws is established: the open event
SocketOpens(ws) ==
    /\ socks[ws] = 0
    /\ TimersLeft(Client) >= 1
    /\ Becomes(onOpen([Client EXCEPT !.k[ws] = 1]))
    /\ hist' = [hist EXCEPT !.lost = "", !.attempts = 0]
    /\ UNCHANGED <<gamevars, ratevars, wsvars, mwvars, appvars>>

\* the connection of socket ws fails (it cannot be established, or it
\* breaks): the error event and then the close event with code 1006
SocketFails(ws) ==
    /\ socks[ws] \in {0, 1, 2}
    /\ TimersLeft(Client) >= 2
    /\ Becomes(onClose(onError([Client EXCEPT !.k[ws] = 3]), 1006))
    /\ hist' = [hist EXCEPT !.lost =
                  IF socks[ws] = 1 /\ mgr.state = "Connected" THEN "broken" ELSE @]
    /\ UNCHANGED <<gamevars, ratevars, wsvars, mwvars, appvars>>

\* the close handshake of socket ws ends (the server began it, or the
\* manager's close() did): the close event
SocketCloses(ws, code) ==
    /\ socks[ws] \in {1, 2}
    /\ TimersLeft(Client) >= 1
    /\ Becomes(onClose([Client EXCEPT !.k[ws] = 3], code))
    /\ hist' = [hist EXCEPT !.lost =
                  IF socks[ws] = 1 /\ mgr.state = "Connected" THEN "closed_by_server" ELSE @]
    /\ UNCHANGED <<gamevars, ratevars, wsvars, mwvars, appvars>>

\* a message of the server arrives on the open socket ws
SocketMessage(ws, type) ==
    /\ socks[ws] = 1
    /\ hist.inbound < MaxMessages
    /\ Becomes(onMessageReceived(Client, type))
    /\ hist' = [hist EXCEPT !.inbound = @ + 1]
    /\ UNCHANGED <<gamevars, ratevars, wsvars, mwvars, appvars>>

\* a reconnect timer fires
ReconnectTimerFires(id) ==
    /\ timers[id] = "reconnect"
    /\ SocketsLeft(Client) >= 1
    /\ Becomes(reconnect(Stop(Client, id)))
    /\ hist' = [hist EXCEPT !.lost = "", !.attempts = @ + 1]
    /\ UNCHANGED <<gamevars, ratevars, wsvars, mwvars, appvars>>

\* a heartbeat timer fires
HeartbeatTimerFires(id, stale) ==
    /\ timers[id] = "heartbeat"
    /\ TimersLeft(Client) >= 1
    /\ Becomes(checkHeartbeat(Stop(Client, id), stale))
    /\ hist' = [hist EXCEPT !.lost =
                  IF mgr.state = "Connected" /\ stale THEN "heartbeat_timeout" ELSE @]
    /\ UNCHANGED <<gamevars, ratevars, wsvars, mwvars, appvars>>

(***************************************************************************)
(* WSService, the simpler WebSocket helper of the component UI             *)
(* (frontend/internal/services/websocket.go).  wss.socks[i] is the         *)
(* readyState of the i-th WebSocket the helper created; every one of them  *)
(* carries the four handlers of setupEventHandlers.  wss.sleeping counts   *)
(* the attemptReconnect goroutines inside time.Sleep.                      *)
(***************************************************************************)
maxReconnectAttempts == 5           \* websocket.go:33
MaxHelperSockets == 4               \* WebSockets created in a run

NewWSService ==
    [ws |-> 0, connected |-> FALSE, reconnectAttempts |-> 0,
     socks |-> <<>>, sleeping |-> 0, disconnected |-> FALSE]

\* Disconnect: nothing without a WebSocket; else the attempts are set to the
\* maximum and close() is called
WSService_Disconnect(h) ==
    IF h.ws = 0
    THEN h
    ELSE [h EXCEPT !.connected = FALSE,
                   !.reconnectAttempts = maxReconnectAttempts,
                   !.socks[h.ws] = IF @ \in {0, 1} THEN 2 ELSE @]

\* Connect: a new WebSocket with the handlers; the one before it is closed
\* only if the helper is connected
WSService_Connect(h) ==
    LET h1 == IF h.connected THEN WSService_Disconnect(h) ELSE h
    IN [h1 EXCEPT !.ws = Len(h1.socks) + 1, !.socks = Append(@, 0)]

\* attemptReconnect up to its time.Sleep
attemptReconnect(h) ==
    IF h.reconnectAttempts >= maxReconnectAttempts
    THEN h
    ELSE [h EXCEPT !.reconnectAttempts = @ + 1, !.sleeping = @ + 1]

openHandler(h) == [h EXCEPT !.connected = TRUE, !.reconnectAttempts = 0]

errorHandler(h) == attemptReconnect([h EXCEPT !.connected = FALSE])

closeHandler(h) ==
    LET h1 == [h EXCEPT !.connected = FALSE]
    IN IF h1.reconnectAttempts < maxReconnectAttempts THEN attemptReconnect(h1) ELSE h1

\* the application calls Connect
HelperConnect ==
    /\ Len(wss.socks) < MaxHelperSockets
    /\ wss' = [WSService_Connect(wss) EXCEPT !.disconnected = FALSE]
    /\ UNCHANGED <<app, recent, mig, gamevars, ratevars, wsvars, mwvars, clientvars>>

\* the application calls Disconnect
HelperDisconnect ==
    /\ wss' = [WSService_Disconnect(wss) EXCEPT !.disconnected = TRUE]
    /\ UNCHANGED <<app, recent, mig, gamevars, ratevars, wsvars, mwvars, clientvars>>

\* the browser: the WebSocket s is open
HelperSocketOpens(s) ==
    /\ s \in DOMAIN wss.socks
    /\ wss.socks[s] = 0
    /\ wss' = openHandler([wss EXCEPT !.socks[s] = 1])
    /\ UNCHANGED <<app, recent, mig, gamevars, ratevars, wsvars, mwvars, clientvars>>

\* the browser: the WebSocket s failed, an error event and a close event
HelperSocketFails(s) ==
    /\ s \in DOMAIN wss.socks
    /\ wss.socks[s] \in {0, 1}
    /\ wss' = closeHandler(errorHandler([wss EXCEPT !.socks[s] = 3]))
    /\ UNCHANGED <<app, recent, mig, gamevars, ratevars, wsvars, mwvars, clientvars>>

\* the browser: the WebSocket s is closed (by the server, or after close())
HelperSocketCloses(s) ==
    /\ s \in DOMAIN wss.socks
    /\ wss.socks[s] \in {1, 2}
    /\ wss' = closeHandler([wss EXCEPT !.socks[s] = 3])
    /\ UNCHANGED <<app, recent, mig, gamevars, ratevars, wsvars, mwvars, clientvars>>

\* attemptReconnect after its time.Sleep: Connect(ws.gameID)
ReconnectWakes ==
    /\ wss.sleeping > 0
    /\ Len(wss.socks) < MaxHelperSockets
    /\ wss' = WSService_Connect([wss EXCEPT !.sleeping = @ - 1])
    /\ UNCHANGED <<app, recent, mig, gamevars, ratevars, wsvars, mwvars, clientvars>>

HelperNext ==
    \/ HelperConnect
    \/ HelperDisconnect
    \/ \E s \in 1..MaxHelperSockets : HelperSocketOpens(s)
    \/ \E s \in 1..MaxHelperSockets : HelperSocketFails(s)
    \/ \E s \in 1..MaxHelperSockets : HelperSocketCloses(s)
    \/ ReconnectWakes

(***************************************************************************)
(* The component UI (GolfGamezApp): the application state, the create and  *)
(* load calls with their asynchronous completions, the score-entry form    *)
(* and the hole navigation.  app is the component's fields; app.call is    *)
(* the API call in flight, app.panicked the end of the program by a panic, *)
(* app.form the last submission of the score-entry form.                   *)
(***************************************************************************)
StateHome == "home"
StateCreateGame == "create_game"
StateJoinGame == "join_game"
StateGameSetup == "game_setup"
StateGameActive == "game_active"
StateGameResults == "game_results"

\* the holes of diamond-run in course_data, and the default of the navigation
CourseHoles == 18
DefaultMaxHoles == 18
\* the bounds of the score-entry form
FormMaxStrokes == 15
FormMaxPutts == 10

\* a nil *models.Game, and the games the server can send: CourseInfo is
\* omitted when getCourseInfo failed, else it carries the holes of the course
NilGame == [nil |-> TRUE, status |-> "", hasCourseInfo |-> FALSE, holes |-> 0]
ServerGames ==
    {[nil |-> FALSE, status |-> st, hasCourseInfo |-> ci,
      holes |-> IF ci THEN CourseHoles ELSE 0] :
        st \in {"setup", "in_progress", "completed"}, ci \in BOOLEAN}

NoForm == [player |-> "", strokes |-> <<>>, putts |-> <<>>, accepted |-> FALSE]

OnMount ==
    [currentState |-> StateHome, currentGame |-> NilGame, currentHole |-> 1,
     isLoading |-> FALSE, errorMessage |-> "", successMessage |-> "",
     call |-> "", panicked |-> FALSE, form |-> NoForm]

setLoading(a, loading) == [a EXCEPT !.isLoading = loading]
setError(a, message) == [a EXCEPT !.errorMessage = message, !.isLoading = FALSE]
setSuccess(a, message) == [a EXCEPT !.successMessage = message, !.errorMessage = ""]
clearMessages(a) == [a EXCEPT !.errorMessage = "", !.successMessage = ""]

onGoHome(a) == clearMessages([a EXCEPT !.currentState = StateHome, !.currentGame = NilGame])
onCreateGameStart(a) == clearMessages([a EXCEPT !.currentState = StateCreateGame])
onJoinGameStart(a) == clearMessages([a EXCEPT !.currentState = StateJoinGame])

\* createGame up to ctx.Async: the call is in flight
createGame(a) == [setLoading(a, TRUE) EXCEPT !.call = "createGame"]

\* createGame, the asynchronous part: game is NilGame when the call failed.
\* The fields are assigned before the error is looked at, and game.ShareLink
\* of a nil game is a nil dereference: the panic ends the program before
\* ctx.Dispatch runs.
createGame_Async(a, game) ==
    LET b == [a EXCEPT !.call = "", !.currentGame = game, !.currentState = StateGameSetup]
    IN IF game.nil THEN [b EXCEPT !.panicked = TRUE]
       ELSE setSuccess(setLoading(b, FALSE), "Game created successfully")

\* loadGame up to ctx.Async
loadGame(a) == [setLoading(a, TRUE) EXCEPT !.call = "loadGame"]

\* loadGame, the dispatched part
loadGame_Dispatch(a, game) ==
    IF game.nil THEN setError([a EXCEPT !.call = ""], "Failed to load game")
    ELSE setLoading([a EXCEPT !.call = "", !.currentGame = game,
                       !.currentState =
                           CASE game.status = "setup" -> StateGameSetup
                             [] game.status = "in_progress" -> StateGameActive
                             [] game.status = "completed" -> StateGameResults
                             [] OTHER -> StateGameSetup], FALSE)

\* maxHoles of onNextHole and renderHoleNavigation
maxHoles(a) ==
    IF ~a.currentGame.nil /\ a.currentGame.hasCourseInfo THEN a.currentGame.holes
    ELSE DefaultMaxHoles

onPreviousHole(a) == IF a.currentHole > 1 THEN [a EXCEPT !.currentHole = @ - 1] ELSE a

onNextHole_NoLimit(a) == [a EXCEPT !.currentHole = @ + 1]
onNextHole(a) == IF a.currentHole < maxHoles(a) THEN [a EXCEPT !.currentHole = @ + 1] ELSE a

\* strconv.Atoi on a string given as its sequence of characters: an optional
\* sign and at least one decimal digit, anything else is an error
DigitValue(c) ==
    CASE c = "0" -> 0 [] c = "1" -> 1 [] c = "2" -> 2 [] c = "3" -> 3 [] c = "4" -> 4
      [] c = "5" -> 5 [] c = "6" -> 6 [] c = "7" -> 7 [] c = "8" -> 8 [] c = "9" -> 9
      [] OTHER -> -1

RECURSIVE DigitsValue(_)
DigitsValue(str) ==
    IF str = <<>> THEN 0
    ELSE 10 * DigitsValue(SubSeq(str, 1, Len(str) - 1)) + DigitValue(str[Len(str)])

Atoi(str) ==
    LET signed == str # <<>> /\ str[1] \in {"-", "+"}
        digits == IF signed THEN Tail(str) ELSE str
        ok == digits # <<>> /\ \A i \in 1..Len(digits) : DigitValue(digits[i]) >= 0
    IN [err |-> ~ok,
        n |-> IF ~ok THEN 0
              ELSE IF signed /\ str[1] = "-" THEN 0 - DigitsValue(digits)
              ELSE DigitsValue(digits)]

\* the option of the hole selector is changed to holeStr
onHoleSelect(a, holeStr) ==
    LET hole == Atoi(holeStr)
    IN IF ~hole.err /\ hole.n >= 1 /\ hole.n <= maxHoles(a)
       THEN [a EXCEPT !.currentHole = hole.n] ELSE a

\* onScoreSubmit: the form goes on to recordScore, or shows an error
onScoreSubmit(a, playerID, strokesStr, puttsStr) ==
    LET strokes == Atoi(strokesStr)
        putts == Atoi(puttsStr)
        f == [player |-> playerID, strokes |-> strokesStr, putts |-> puttsStr,
              accepted |-> FALSE]
    IN IF playerID = "" THEN setError([a EXCEPT !.form = f], "Please select a player")
       ELSE IF strokes.err \/ strokes.n < 1 \/ strokes.n > FormMaxStrokes
       THEN setError([a EXCEPT !.form = f], "Please enter valid strokes (1-15)")
       ELSE IF putts.err \/ putts.n < 0 \/ putts.n > FormMaxPutts
       THEN setError([a EXCEPT !.form = f], "Please enter valid putts (0-10)")
       ELSE [a EXCEPT !.form = [f EXCEPT !.accepted = TRUE]]

\* what the user can type into a field of a form
FormValues ==
    {<<>>, <<"x">>, <<"0">>, <<"3">>, <<"5">>, <<"1", "1">>, <<"1", "6">>, <<"2", "1">>}

\* a step of the component; app.form holds the submission of this step only
UIStep(a) ==
    /\ app' = [a EXCEPT !.form = IF a.form = app.form THEN NoForm ELSE @]
    /\ UNCHANGED <<wss, recent, mig, gamevars, ratevars, wsvars, mwvars, clientvars>>

GoHome == ~app.panicked /\ UIStep(onGoHome(app))
CreateGameStart == ~app.panicked /\ UIStep(onCreateGameStart(app))
JoinGameStart == ~app.panicked /\ UIStep(onJoinGameStart(app))
CreateGameSubmit == app.call = "" /\ app.currentState = StateCreateGame /\ UIStep(createGame(app))
CreateGameReturns(game) == app.call = "createGame" /\ UIStep(createGame_Async(app, game))
JoinGameSubmit == app.call = "" /\ app.currentState = StateJoinGame /\ UIStep(loadGame(app))
LoadGameReturns(game) == app.call = "loadGame" /\ UIStep(loadGame_Dispatch(app, game))
PreviousHole == ~app.panicked /\ UIStep(onPreviousHole(app))
NextHole == ~app.panicked /\ UIStep(onNextHole(app))
HoleSelect(holeStr) == ~app.panicked /\ UIStep(onHoleSelect(app, holeStr))
ScoreSubmit(playerID, strokesStr, puttsStr) ==
    /\ app.currentState = StateGameActive
    /\ ~app.currentGame.nil
    /\ app.form = NoForm
    /\ UIStep(onScoreSubmit(app, playerID, strokesStr, puttsStr))

UINext ==
    \/ GoHome
    \/ CreateGameStart
    \/ JoinGameStart
    \/ CreateGameSubmit
    \/ \E game \in {g \in ServerGames : g.status = "setup"} \cup {NilGame} : CreateGameReturns(game)
    \/ JoinGameSubmit
    \/ \E game \in ServerGames \cup {NilGame} : LoadGameReturns(game)
    \/ PreviousHole
    \/ NextHole
    \/ \E holeStr \in FormValues : HoleSelect(holeStr)
    \/ \E playerID \in {"", "p1"}, strokesStr, puttsStr \in FormValues :
           ScoreSubmit(playerID, strokesStr, puttsStr)

(***************************************************************************)
(* The recent-games list of the browser storage (LocalStorage).            *)
(* recent.ids is the list stored under "recentGames"; recent.order keeps   *)
(* every id ever added, the latest addition first, and recent.calls counts *)
(* the AddRecentGame calls.                                                *)
(***************************************************************************)
RecentLimit == 10
MaxRecentCalls == 12

NoRecent == [ids |-> <<>>, order |-> <<>>, calls |-> 0]

\* the first index of gameID in the list, 0 when it is not there
IndexOf(list, gameID) ==
    IF \E i \in 1..Len(list) : list[i] = gameID
    THEN CHOOSE i \in 1..Len(list) :
             list[i] = gameID /\ \A j \in 1..(i - 1) : list[j] # gameID
    ELSE 0

AddRecentGame_NoRemoval(list, gameID) ==
    LET added == <<gameID>> \o list
    IN IF Len(added) > RecentLimit THEN SubSeq(added, 1, RecentLimit) ELSE added

\* AddRecentGame on the loaded list: the list that is saved
AddRecentGame(list, gameID) ==
    LET i == IndexOf(list, gameID)
        removed == IF i > 0 THEN SubSeq(list, 1, i - 1) \o SubSeq(list, i + 1, Len(list))
                   ELSE list
        added == <<gameID>> \o removed
    IN IF Len(added) > RecentLimit THEN SubSeq(added, 1, RecentLimit) ELSE added

\* the ids in order of their latest addition, after gameID is added
LatestFirst(order, gameID) ==
    <<gameID>> \o SelectSeq(order, LAMBDA id : id # gameID)

\* the application adds a game: one it added before, or a new one (new games
\* are numbered in the order of their first addition)
RecentAdd(gameID) ==
    /\ recent.calls < MaxRecentCalls
    /\ recent' = [ids |-> AddRecentGame(recent.ids, gameID),
                  order |-> LatestFirst(recent.order, gameID),
                  calls |-> recent.calls + 1]
    /\ UNCHANGED <<wss, app, mig, gamevars, ratevars, wsvars, mwvars, clientvars>>

RecentNext ==
    \E gameID \in 1..(Len(recent.order) + 1) : RecentAdd(gameID)

(***************************************************************************)
(* The database migrations (database.Migrate).  mig.applied[v] is the      *)
(* number of statements of migration v in effect in the committed          *)
(* database, mig.rows the versions in the migrations table, mig.tx the     *)
(* open transaction (done statements, bookkeeping row written), mig.pc and *)
(* mig.i the position of the running Migrate, mig.commits[v] how often the *)
(* statements of v were committed, mig.failed the migration the last       *)
(* failure interrupted and the statements it had executed.                 *)
(***************************************************************************)
Versions == <<"001", "002">>
SchemaStatements == 24         \* CREATE TABLE and CREATE INDEX statements of 001
DataStatements == 1            \* the INSERT of 002
MaxMigrateRuns == 3

Statements(version) == IF version = "001" THEN SchemaStatements ELSE DataStatements

NoTx == [open |-> FALSE, done |-> 0, row |-> FALSE]
NoFailure == [version |-> "", done |-> 0]

NoMigrations ==
    [applied |-> [v \in {"001", "002"} |-> 0], rows |-> {}, tx |-> NoTx,
     pc |-> "idle", i |-> 0, runs |-> 0,
     commits |-> [v \in {"001", "002"} |-> 0], failed |-> NoFailure]

\* isMigrationApplied: SELECT COUNT(*) FROM migrations WHERE version = ?
isMigrationApplied(m, version) == version \in m.rows

\* tx.Exec of one statement of the migration, inside the transaction
execStatement_Autocommit(m, version) ==
    [m EXCEPT !.tx.done = @ + 1, !.applied[version] = m.tx.done + 1]

execStatement(m, version) == [m EXCEPT !.tx.done = @ + 1]

\* tx.Exec("INSERT INTO migrations ...")
recordMigration(m) == [m EXCEPT !.tx.row = TRUE]

\* tx.Commit: the statements and the row of the transaction take effect
commitTx(m, version) ==
    [m EXCEPT !.applied[version] = m.tx.done,
              !.rows = IF m.tx.row THEN @ \cup {version} ELSE @,
              !.commits[version] = @ + 1,
              !.tx = NoTx]

\* the deferred tx.Rollback after an error, and the return of Migrate (the
\* end of the process with the transaction open leaves the same database)
rollbackTx(m, version) ==
    [m EXCEPT !.failed = [version |-> version, done |-> m.tx.done],
              !.tx = NoTx, !.pc = "idle", !.i = 0]

\* the loop of Migrate goes on to the next migration, or returns
nextMigration(m) ==
    IF m.i < Len(Versions) THEN [m EXCEPT !.i = @ + 1, !.pc = "check"]
    ELSE [m EXCEPT !.i = 0, !.pc = "idle"]

MigStep(m) ==
    /\ mig' = m
    /\ UNCHANGED <<wss, app, recent, gamevars, ratevars, wsvars, mwvars, clientvars>>

\* Migrate is called (at the start of the server): createMigrationsTable
MigrateBegins ==
    /\ mig.pc = "idle"
    /\ mig.runs < MaxMigrateRuns
    /\ \E err \in BOOLEAN :
           MigStep(IF err THEN [mig EXCEPT !.runs = @ + 1]
                   ELSE [mig EXCEPT !.runs = @ + 1, !.i = 1, !.pc = "check"])

MigrationChecked ==
    /\ mig.pc = "check"
    /\ \E err \in BOOLEAN :
           MigStep(IF err THEN [mig EXCEPT !.pc = "idle", !.i = 0]
                   ELSE IF isMigrationApplied(mig, Versions[mig.i]) THEN nextMigration(mig)
                   ELSE [mig EXCEPT !.pc = "begin"])

\* applyMigration: db.Begin
MigrationBegins ==
    /\ mig.pc = "begin"
    /\ \E err \in BOOLEAN :
           MigStep(IF err THEN [mig EXCEPT !.pc = "idle", !.i = 0]
                   ELSE [mig EXCEPT !.tx = [NoTx EXCEPT !.open = TRUE], !.pc = "exec"])

\* applyMigration: tx.Exec(migration.SQL), statement by statement
MigrationStatement ==
    /\ mig.pc = "exec"
    /\ \E err \in BOOLEAN :
           MigStep(IF err THEN rollbackTx(mig, Versions[mig.i])
                   ELSE LET m == execStatement(mig, Versions[mig.i])
                        IN IF m.tx.done = Statements(Versions[mig.i])
                           THEN [m EXCEPT !.pc = "record"] ELSE m)

\* applyMigration: the bookkeeping insert
MigrationRecorded ==
    /\ mig.pc = "record"
    /\ \E err \in BOOLEAN :
           MigStep(IF err THEN rollbackTx(mig, Versions[mig.i])
                   ELSE [recordMigration(mig) EXCEPT !.pc = "commit"])

\* applyMigration: tx.Commit
MigrationCommits ==
    /\ mig.pc = "commit"
    /\ \E err \in BOOLEAN :
           MigStep(IF err THEN rollbackTx(mig, Versions[mig.i])
                   ELSE nextMigration(commitTx(mig, Versions[mig.i])))

MigrateNext ==
    \/ MigrateBegins
    \/ MigrationChecked
    \/ MigrationBegins
    \/ MigrationStatement
    \/ MigrationRecorded
    \/ MigrationCommits

AppInit ==
    /\ wss = NewWSService
    /\ app = OnMount
    /\ recent = NoRecent
    /\ mig = NoMigrations

(***************************************************************************)
(* Specifications.                                                         *)
(***************************************************************************)
\* Initial states: the server has just started (no request, full rate
\* limiters, empty registry); the database is empty or holds a game in setup
\* whose players were added one after the other.
RosterInit ==
    /\ \/ EmptyDB
       \/ \E g \in Games, sbs \in SideBetChoices, k \in 0..MaxPlayers : SetupDB(g, sbs, k)
    /\ NoRequests
    /\ RateInit
    /\ WSInit
    /\ ChainInit
    /\ ClientInit
    /\ AppInit

PlayInit ==
    /\ \/ EmptyDB
       \/ \E g \in Games, sbs \in SideBetChoices, k \in 1..MaxPlayPlayers : SetupDB(g, sbs, k)
    /\ NoRequests
    /\ RateInit
    /\ WSInit
    /\ ChainInit
    /\ ClientInit
    /\ AppInit

ServerInit ==
    /\ EmptyDB
    /\ NoRequests
    /\ RateInit
    /\ WSInit
    /\ ChainInit
    /\ ClientInit
    /\ AppInit

\* Roster specification: game creation, the roster and the start of a game.
RosterNext ==
    \/ \E g \in Games, sbs \in SideBetChoices : CreateGame(g, sbs)
    \/ \E s \in Slots :
        \/ /\ served < MaxRosterRequests
           /\ \/ BeginAddPlayer(s)
              \/ BeginRemovePlayer(s)
              \/ BeginStartGame(s)
              \/ BeginUnrouted(s)
              \/ BeginNoWriter(s)
        \/ AuthSteps(s)
        \/ AddPlayerSteps(s)
        \/ RemovePlayerSteps(s)
        \/ StartGameSteps(s)

SpecRoster == RosterInit /\ [][RosterNext]_vars

\* Scoring specification: a game from its start to the final deal, played
\* by the holder of its share token.
PlayNext ==
    \/ \E g \in Games, sbs \in SideBetChoices : CreateGame(g, sbs)
    \/ \E s \in Slots :
        \/ /\ served < MaxPlayRequests
           /\ \/ BeginStartGame(s)
              \/ BeginCompleteGame(s)
              \/ BeginRecordScore(s)
              \/ BeginUpdateScore(s)
              \/ BeginDealPokerCards(s)
        \/ GameAuth(s)
        \/ StartGameSteps(s)
        \/ CompleteGameSteps(s)
        \/ ScoreSteps(s)
        \/ DealSteps(s)

SpecPlay == PlayInit /\ [][PlayNext]_vars

\* Rate-limit specification: the requests of the client IPs and the clock.
RateNext ==
    \/ Tick
    \/ \E ip \in IPs, kind \in RateKinds : RateLimit(ip, kind)

SpecRate == ServerInit /\ [][RateNext]_vars

\* WebSocket specification: connections come and go while handlers broadcast.
\* A broadcast names a key of the registry: the id of a game, or the key
\* HandleWebSocket registers the connections under.
WSNext ==
    \/ \E c \in Conns, g \in WSGames : HandleWebSocket(c, g)
    \/ \E c \in Conns : Disconnect(c)
    \/ \E b \in Broadcasters, g \in Rooms : Commit(b, g)
    \/ \E b \in Broadcasters : BroadcastSnapshot(b)
    \/ \E b \in Broadcasters : WriteMessage(b)
    \/ \E b \in Broadcasters : BroadcastWrite(b)
    \/ \E b \in Broadcasters : WritePanics(b)
    \/ \E b \in Broadcasters : BroadcastReturns(b)

SpecWS == ServerInit /\ [][WSNext]_vars

\* Score-value specification: one game with one player, from its start on;
\* the score requests carry values inside and outside the accepted ranges.
Sc(hole, strokes, putts) == [hole |-> hole, strokes |-> strokes, putts |-> putts]

\* bodies of POST .../scores: accepted ones, and one for every rule of
\* validateScoreRequest
ScoreBodies ==
    { Sc(1, 3, 1), Sc(1, 3, 3), Sc(1, 2, 1),
      Sc(0, 3, 1), Sc(19, 3, 1), Sc(1, 0, 0), Sc(1, 21, 1),
      Sc(1, 3, -2), Sc(1, 12, 11), Sc(1, 2, 3) }

\* bodies of PUT .../scores/{hole}: each field present or absent
UpdateBodies ==
    { Sc(1, 2, NoVal), Sc(1, 3, NoVal), Sc(1, NoVal, 1), Sc(1, NoVal, 3),
      Sc(1, 2, 3), Sc(1, 0, NoVal), Sc(1, 21, NoVal),
      Sc(1, NoVal, -2), Sc(1, NoVal, 11), Sc(1, NoVal, NoVal) }

BeginScoreBody(s) ==
    \E t \in Writers, p \in players, b \in ScoreBodies :
        Begin(s, [NewReq(s, "RecordScore", t) EXCEPT
                    !.pid = p.id, !.hole = b.hole, !.strokes = b.strokes, !.putts = b.putts])

BeginUpdateBody(s) ==
    \E t \in Writers, p \in players, b \in UpdateBodies :
        Begin(s, [NewReq(s, "UpdateScore", t) EXCEPT
                    !.pid = p.id, !.hole = b.hole, !.strokes = b.strokes, !.putts = b.putts])

ScoreInit ==
    /\ \E g \in Games, sbs \in SideBetChoices : SetupDB(g, sbs, 1)
    /\ NoRequests
    /\ RateInit
    /\ WSInit
    /\ ChainInit
    /\ ClientInit
    /\ AppInit

ScoreNext ==
    \E s \in Slots :
        \/ /\ served < MaxScoreRequests
           /\ \/ BeginStartGame(s)
              \/ BeginCompleteGame(s)
              \/ BeginScoreBody(s)
              \/ BeginUpdateBody(s)
        \/ GameAuth(s)
        \/ StartGameSteps(s)
        \/ CompleteGameSteps(s)
        \/ ScoreSteps(s)

SpecScore == ScoreInit /\ [][ScoreNext]_vars

\* Access specification: requests that present resolvable and unresolvable
\* tokens, in the path or in the Authorization header, to routes under
\* /games/{gameId} and to /spectate/{spectatorToken}.
\* values of the {gameId} path segment: the tokens and the id of game gA, a
\* share token of the wrong length, a well-formed token no game was given
AccessPaths ==
    { ShareToken("gA"), SpectatorToken("gA"), GenerateGameID("gA"),
      <<ShareTokenPrefix, "gA", TokenLength - 1>>,
      <<ShareTokenPrefix, "zz", TokenLength>> }

\* Authorization headers: none, a Bearer token (the share token of gA, one
\* with an unknown prefix, a well-formed one no game was given), and
\* another scheme
AccessHeaders ==
    { <<>>,
      <<"Bearer", ShareToken("gA")>>,
      <<"Bearer", <<"xx_", "gA", TokenLength>> >>,
      <<"Bearer", <<SpectatorTokenPrefix, "zz", TokenLength>> >>,
      <<"Basic", ShareToken("gA")>> }

\* values of the {spectatorToken} path segment
SpectatePaths ==
    { ShareToken("gA"), SpectatorToken("gA"), <<SpectatorTokenPrefix, "zz", TokenLength>> }

AccessOps == { "GetGame", "DeleteGame", "StartGame" }

BeginAccess(s) ==
    \E op \in AccessOps, path \in AccessPaths, h \in AccessHeaders :
        Begin(s, [NewReq(s, op, path) EXCEPT !.hdr = h])

\* /spectate/{spectatorToken} is outside the GameAuth subtree
BeginSpectateGame(s) ==
    \E path \in SpectatePaths :
        Begin(s, [NewReq(s, "SpectateGame", path) EXCEPT !.pc = "sp_check"])

AccessInit ==
    /\ \/ EmptyDB
       \/ \E g \in Games, sbs \in SideBetChoices, k \in 0..1 : SetupDB(g, sbs, k)
    /\ NoRequests
    /\ RateInit
    /\ WSInit
    /\ ChainInit
    /\ ClientInit
    /\ AppInit

AccessNext ==
    \E s \in Slots :
        \/ /\ served < MaxAccessRequests
           /\ \/ BeginAccess(s)
              \/ BeginSpectateGame(s)
        \/ GameAuth(s)
        \/ GameSteps(s)
        \/ SpectateSteps(s)
        \/ StartGameSteps(s)

SpecAccess == AccessInit /\ [][AccessNext]_vars

\* Two-game specification: game gA with the players 1 and 2 and game gB with
\* player 3, each in setup or in progress; in a game in progress the player
\* 1 (3) has a score on hole 1, or not.  A request carries the share token
\* of one game, in the path, or in the Authorization header when the path
\* names the other game by its id; a request of a player route carries the
\* id of one of the three players.
TwoGames == {"gA", "gB"}

TwoGamesInit ==
    /\ \E st \in [TwoGames -> {GameStatusSetup, GameStatusInProgress}] :
          /\ games = [g \in TwoGames |->
                        [status |-> st[g], side_bets |-> <<SideBetBestNine>>, completed_at |-> 0]]
          /\ \E scored \in SUBSET { g \in TwoGames : st[g] = GameStatusInProgress } :
                scores = { [player_id |-> IF g = "gA" THEN 1 ELSE 3, game_id |-> g, hole |-> 1,
                            strokes |-> 4, putts |-> 2, updated |-> FALSE] : g \in scored }
    /\ players = { [id |-> 1, game_id |-> "gA", name |-> NameSeq[1], position |-> 1],
                   [id |-> 2, game_id |-> "gA", name |-> NameSeq[2], position |-> 2],
                   [id |-> 3, game_id |-> "gB", name |-> NameSeq[1], position |-> 1] }
    /\ nextPid = 4
    /\ calcs = {}
    /\ cards = EmptyBag
    /\ hands = {}
    /\ req = [s \in Slots |-> Idle]
    /\ reply = [op |-> "none", code |-> ""]
    /\ served = 0
    /\ dealOK = FALSE
    /\ out = [event |-> "", warn |-> FALSE]
    /\ RateInit
    /\ WSInit
    /\ ChainInit
    /\ ClientInit
    /\ AppInit

PlayerOps == { "RemovePlayer", "RecordScore", "UpdateScore" }
GameOps == { "GetGame", "DeleteGame", "CompleteGame" }

BeginTwoGames(s) ==
    \E op \in PlayerOps \cup GameOps, a \in TwoGames, b \in TwoGames, pid \in PidInputs :
        /\ op \in GameOps <=> pid = 0
        /\ LET path == IF a = b THEN ShareToken(a) ELSE GenerateGameID(b)
               hdr == IF a = b THEN <<>> ELSE <<"Bearer", ShareToken(a)>>
           IN Begin(s, [NewReq(s, op, path) EXCEPT
                          !.hdr = hdr, !.pid = pid,
                          !.hole = IF op \in {"RecordScore", "UpdateScore"} THEN 1 ELSE 0,
                          !.strokes = IF op \in {"RecordScore", "UpdateScore"} THEN 3 ELSE NoVal,
                          !.putts = IF op \in {"RecordScore", "UpdateScore"} THEN 2 ELSE NoVal])

TwoGamesNext ==
    \E s \in Slots :
        \/ /\ served < MaxIsolationRequests
           /\ BeginTwoGames(s)
        \/ GameAuth(s)
        \/ RemovePlayerSteps(s)
        \/ ScoreSteps(s)
        \/ CompleteGameSteps(s)
        \/ GameSteps(s)

SpecTwoGames == TwoGamesInit /\ [][TwoGamesNext]_vars

\* Middleware specification: requests run through the chain, their handlers
\* answer or panic.
ChainNext ==
    \E q \in ChainReqs :
        \/ Accept(q)
        \/ Logger(q)
        \/ Recoverer(q)
        \/ \E requestID \in UUIDs : RequestID(q, requestID)
        \/ \E panics \in BOOLEAN : ServeHTTP(q, panics)
        \/ Recoverer_recover(q)
        \/ Logger_completed(q)
        \/ Unwind(q)

SpecChain == ServerInit /\ [][ChainNext]_vars

\* Client specification: the application, the browser's socket events and
\* the timers drive the manager.
ClientNext ==
    \/ AppConnect
    \/ AppClose
    \/ AppSendMessage
    \/ \E ws \in SockIds :
        \/ SocketOpens(ws)
        \/ SocketFails(ws)
        \/ \E code \in CloseCodes : SocketCloses(ws, code)
        \/ \E type \in InboundTypes : SocketMessage(ws, type)
    \/ \E id \in TimerIds :
        \/ ReconnectTimerFires(id)
        \/ \E stale \in BOOLEAN : HeartbeatTimerFires(id, stale)

SpecClient == ServerInit /\ [][ClientNext]_vars

\* A pending timer fires, and the browser ends what it began on a socket.
ClientFairness ==
    /\ \A id \in TimerIds :
          /\ WF_vars(ReconnectTimerFires(id))
          /\ WF_vars(\E stale \in BOOLEAN : HeartbeatTimerFires(id, stale))
    /\ \A ws \in SockIds :
          WF_vars(socks[ws] \in {0, 2} /\ (SocketOpens(ws) \/ SocketFails(ws)
                                           \/ \E code \in CloseCodes : SocketCloses(ws, code)))

SpecClientLive == ServerInit /\ [][ClientNext]_vars /\ ClientFairness

(***************************************************************************)
(* Properties.                                                             *)
(***************************************************************************)
\* goroutine s takes a step of its request
Steps(s) == req[s].pc # "idle" /\ req'[s] # req[s]

\* goroutine s writes the response of its request
Responds(s) == req[s].pc # "idle" /\ req'[s].pc = "idle"

StatusRank(status) ==
    CASE status = "none" -> 0
      [] status = GameStatusSetup -> 1
      [] status = GameStatusInProgress -> 2
      [] status = GameStatusCompleted -> 3
      [] OTHER -> 4

RosterIds(g) == { p.id : p \in PlayersOf(g) }

StartingCardsOf(g, pid) == CopiesIn(StartingCard(g, pid), cards)

StartGameInFlight(g) ==
    \E s \in Slots : req[s].op = "StartGame" /\ req[s].pc # "auth" /\ req[s].game = g

\* C1: under any interleaving of StartGame and CompleteGame requests the
\* status of a game only moves forward, setup -> in_progress -> completed:
\* no step takes a game back to an earlier status.
C1_StatusOnlyMovesForward ==
    [][\A g \in Games : StatusRank(games[g].status) <= StatusRank(games'[g].status)]_vars

\* C2: a score row is created or modified only while its game is in_progress:
\* every step that leaves a new or changed row in scores is taken while the
\* game of that row has status in_progress.
C2_ScoresChangeOnlyInProgress ==
    [][\A x \in scores' \ scores :
          games[x.game_id].status = GameStatusInProgress]_vars

\* C3: players are added to or removed from a game only while the game is in
\* setup, requests in flight when the game starts included: every step that
\* changes the set of players of a game is taken while its status is setup.
C3_RosterChangesOnlyInSetup ==
    [][\A g \in Games :
          RosterIds(g)' # RosterIds(g) => games[g].status = GameStatusSetup]_vars

\* C4: when Putt-Putt Poker is enabled, once StartGame has returned every
\* player of the game has exactly one 'starting' card event (+3, total 3).
C4_OneStartingCardEach ==
    \A g \in Games :
        ( /\ games[g].status \in {GameStatusInProgress, GameStatusCompleted}
          /\ SideBetEnabled(games[g].side_bets, SideBetPuttPuttPoker)
          /\ ~ StartGameInFlight(g) )
        => \A p \in PlayersOf(g) : StartingCardsOf(g, p.id) = 1

\* C5: a broadcast for game A goes to every connection registered for A and
\* to none registered for another game, a connection being registered for the
\* game named in the path of its upgrade request: the connections a broadcast
\* for g will write to are exactly the open connections whose path names g.
C5_BroadcastReachesItsGame ==
    [][\A b \in Broadcasters :
          (bc[b].pc = "broadcast" /\ bc'[b].pc = "write")
          => bc'[b].todo = { c \in Conns : conn[c].open /\ conn[c].path = bc'[b].game }]_vars

\* C6: every POST, PUT, PATCH or DELETE request under /games/{gameId} sent
\* with a valid spectator token is rejected with insufficient_permissions and
\* changes nothing in the database: the only step such a request takes writes
\* that response and leaves every table as it was.
C6_SpectatorWritesRejected ==
    [][\A s \in Slots :
          ( /\ Steps(s)
            /\ req[s].method \in WriteMethods
            /\ ValidateTokenFormat(req[s].tok) = TokenTypeSpectator
            /\ validateGameToken(req[s].tok, TokenTypeSpectator) # "" )
          => /\ Responds(s)
             /\ reply' = [op |-> req[s].op, code |-> "insufficient_permissions"]
             /\ UNCHANGED dbvars]_vars

\* C6 witness: a spectator's DELETE of a player was answered with
\* insufficient_permissions while the game has players
C6_Witness ==
    /\ reply = [op |-> "RemovePlayer", code |-> "insufficient_permissions"]
    /\ players # {}

\* C7: once a DealPokerCards request for a game has succeeded, every later
\* DealPokerCards request for that game fails with cards_already_dealt: a
\* request that began after a success and reaches the count of dealt hands
\* is answered with cards_already_dealt.
C7_DealOnlyOnce ==
    [][\A s \in Slots :
          (req[s].pc = "dp_count" /\ req[s].late /\ Responds(s))
          => reply'.code = "cards_already_dealt"]_vars

\* C8: for one client IP, once 10 game creations have been admitted within
\* the last hour, the next game-creation request is rejected with
\* rate_limit_exceeded, however the requests are spaced.
C8_EleventhCreationRejected ==
    [][\A ip \in IPs :
          ( /\ rateServed' = rateServed + 1
            /\ rateReply'.ip = ip /\ rateReply'.kind = "create"
            /\ Len(admitted[ip]) >= CreationGames )
          => rateReply'.code = "rate_limit_exceeded"]_vars

C10_DuplicateScoreRejected ==
    [][/\ \A x \in scores', y \in scores' :
            (x.player_id = y.player_id /\ x.hole = y.hole) => x = y
       /\ \A s \in Slots :
            ( /\ req[s].pc \in {"rs_exists", "rs_insert"} /\ Steps(s)
              /\ ScoreExists(req[s].pid, req[s].hole) )
            => /\ Responds(s)
               /\ reply'.code = "score_already_exists"]_vars

CalcsOf(g, pid, betType) ==
    { c \in calcs : c.game_id = g /\ c.player_id = pid /\ c.bet_type = betType }

\* C11: when StartGame answers with success, the game has exactly one
\* side_bet_calculations row for every player and every enabled side bet.
C11_OneCalculationPerPlayerAndBet ==
    [][\A s \in Slots :
         ( /\ req[s].op = "StartGame"
           /\ Responds(s)
           /\ reply' = [op |-> "StartGame", code |-> "ok"] )
         => LET g == req[s].game
                sbs == games[g].side_bets
            IN \A p \in PlayersOf(g), k \in 1..Len(sbs) :
                  Cardinality(CalcsOf(g, p.id, sbs[k])) = 1]_vars

Quiescent == \A s \in Slots : req[s].pc = "idle"

PositionsOf(g) == { p.position : p \in PlayersOf(g) }

\* C12: whenever no request is running, the positions of the N players of a
\* game are exactly 1..N, each used by one player.
C12_PositionsDense ==
    Quiescent => \A g \in Games : PositionsOf(g) = 1..getPlayerCount(g)

\* C13: every stored score has 0 <= putts <= strokes, 1 <= strokes <= 20 and
\* 1 <= hole <= 18, whatever RecordScore and UpdateScore requests were served.
C13_StoredScoresInRange ==
    \A x \in scores :
        /\ MinPutts <= x.putts /\ x.putts <= x.strokes
        /\ MinStrokes <= x.strokes /\ x.strokes <= MaxStrokes
        /\ MinHole <= x.hole /\ x.hole <= MaxHole

\* an updated score is stored and an UpdateScore request was just refused
\* for its putt count
C13_Witness ==
    /\ reply = [op |-> "UpdateScore", code |-> "invalid_putt_count"]
    /\ \E x \in scores : x.updated

\* C14: StartGame takes effect only on a game that is in setup and has a
\* player; a StartGame request that finds another status, or no player,
\* fails with invalid_game_state and changes nothing.
C14_StartGameOnlyFromSetup ==
    [][\A s \in Slots :
         (req[s].op = "StartGame" /\ req[s].pc # "auth" /\ Steps(s))
         => LET g == req[s].game IN
            /\ games' # games
                 => games[g].status = GameStatusSetup /\ getPlayerCount(g) >= 1
            /\ ( \/ /\ req[s].pc = "sg_game"
                    /\ games[g].status \in {GameStatusInProgress, GameStatusCompleted}
                 \/ /\ req[s].pc = "sg_players"
                    /\ getPlayerCount(g) = 0 )
                 => /\ Responds(s)
                    /\ reply' = [op |-> "StartGame", code |-> "invalid_game_state"]
                    /\ UNCHANGED dbvars]_vars

\* C15: CompleteGame takes effect only on a game that is in_progress; a
\* CompleteGame request on a game in setup or already completed fails with
\* invalid_game_state, and status and completed_at stay as they were.
C15_CompleteGameOnlyInProgress ==
    [][\A s \in Slots :
         (req[s].op = "CompleteGame" /\ req[s].pc # "auth" /\ Steps(s))
         => LET g == req[s].game IN
            /\ games' # games => games[g].status = GameStatusInProgress
            /\ ( /\ req[s].pc = "cg_game"
                 /\ games[g].status \in {GameStatusSetup, GameStatusCompleted} )
                 => /\ Responds(s)
                    /\ reply' = [op |-> "CompleteGame", code |-> "invalid_game_state"]
                    /\ UNCHANGED dbvars]_vars

\* RecordScore request s is at its status check and the game is not in_progress
RecordOutsidePlay(s) ==
    /\ req[s].op = "RecordScore"
    /\ req[s].pc = "rs_game"
    /\ Steps(s)
    /\ games[req[s].game].status \in {GameStatusSetup, GameStatusCompleted}

RecordRefused(s) ==
    /\ Responds(s)
    /\ reply' = [op |-> "RecordScore", code |-> "game_not_started"]
    /\ scores' = scores

\* C16 as stated: every attempt to record a score while the game is not
\* in_progress fails with game_not_started and stores no score.
C16_AnyRecordOutsidePlayRefused ==
    [][\A s \in Slots : RecordOutsidePlay(s) => RecordRefused(s)]_vars

\* C16: an attempt to record a score whose body passes validateScoreRequest,
\* made while the game is not in_progress, fails with game_not_started and
\* stores no score; a body that fails validation is refused for that reason
\* first, and stores no score either.
C16_ValidRecordOutsidePlayRefused ==
    [][\A s \in Slots :
         RecordOutsidePlay(s)
         => IF validateScoreRequest(req[s].hole, req[s].strokes, req[s].putts) = ""
            THEN RecordRefused(s)
            ELSE /\ Responds(s)
                 /\ reply'.code \in {"validation_error", "invalid_putt_count"}
                 /\ scores' = scores]_vars

\* a score was refused on a completed game
C16_Witness ==
    /\ reply = [op |-> "RecordScore", code |-> "game_not_started"]
    /\ \E g \in Games : games[g].status = GameStatusCompleted

\* C19: an AddPlayer request whose name is that of a player already in the
\* game, at its name check or at its insert, fails with
\* duplicate_player_name and adds no player.
C19_DuplicateNameRejected ==
    [][\A s \in Slots :
         ( /\ req[s].op = "AddPlayer"
           /\ req[s].pc \in {"ap_name", "ap_insert"}
           /\ Steps(s)
           /\ playerNameExists(req[s].game, req[s].name) )
         => /\ Responds(s)
            /\ reply' = [op |-> "AddPlayer", code |-> "duplicate_player_name"]
            /\ players' = players]_vars

\* the tokens a request presents: the path segment, and the token of a
\* Bearer header
Presented(r) ==
    {r.tok} \cup (IF Len(r.hdr) = 2 /\ r.hdr[1] = "Bearer" THEN {r.hdr[2]} ELSE {})

\* no token the request presents is the share or spectator token of a game
Unresolvable(r) ==
    \A t \in Presented(r), g \in Games :
        games[g].status = "none" \/ (t # ShareToken(g) /\ t # SpectatorToken(g))

C18_ShareTokenRefusedAtSpectate ==
    [][\A s \in Slots :
         ( /\ req[s].op = "SpectateGame"
           /\ Steps(s)
           /\ req[s].tok[1] = ShareTokenPrefix )
         => /\ Responds(s)
            /\ reply' = [op |-> "SpectateGame", code |-> "invalid_token"]]_vars

\* the spectator path refused a token while game gA exists; of the values
\* of SpectatePaths only the share token of gA is refused for its type
C18_Witness ==
    /\ reply = [op |-> "SpectateGame", code |-> "invalid_token"]
    /\ served = 1
    /\ games["gA"].status # "none"

\* the id or token request s goes by matches no game
NoSuchGame(s) ==
    \/ req[s].pc = "auth" /\ Unresolvable(req[s])
    \/ /\ req[s].pc \in {"gg_get", "dg_get", "dg_delete"}
       /\ games[req[s].game].status = "none"
    \/ req[s].pc = "sp_get" /\ GetGame(req[s].tok) = ""

\* C20: GetGame and DeleteGame (and the GetGame call of the spectator path)
\* with an id or token that matches no game fail with game_not_found.
C20_GameNotFound ==
    [][\A s \in Slots :
         ( /\ req[s].op \in {"GetGame", "DeleteGame", "SpectateGame"}
           /\ Steps(s)
           /\ NoSuchGame(s) )
         => /\ Responds(s)
            /\ reply'.code = "game_not_found"]_vars

\* the request q has been answered by Recoverer after a panic of its handler
Recovered(q) == chain[q].body.code = "internal_server_error"

\* C21: when a handler panics, the response is internal_server_error with
\* status 500, its request_id is the id RequestID assigned to the request
\* (the X-Request-ID header), and the log line of the panic carries that id.
C21_PanicResponseCarriesRequestID ==
    \A q \in ChainReqs :
        Recovered(q) =>
            /\ chain[q].status = 500
            /\ chain[q].header \in UUIDs
            /\ chain[q].body.request_id = chain[q].header
            /\ \E i \in 1..Len(chain[q].log) :
                  chain[q].log[i] = [msg |-> "panic", request_id |-> chain[q].header]

\* the timers that have not fired and were not stopped
Pending == { id \in TimerIds : timers[id] \in {"reconnect", "heartbeat"} }

\* the sockets that are connecting or open
Live == { ws \in SockIds : socks[ws] \in {0, 1} }

\* C22: from the application's Close until its next Connect no reconnect or
\* heartbeat timer is pending and the manager creates no socket, whatever
\* socket events and timer callbacks run in between.
C22_QuietAfterClose ==
    [][hist.closed' =>
          /\ Pending' = {}
          /\ hist.closed => \A ws \in SockIds : socks[ws] = -1 => socks'[ws] = -1]_vars

\* C23: when the manager has lost its connection for a reason other than
\* the application's Close (the connection broke, the server closed it, or
\* the manager's heartbeat check force-closed it) and fewer than maxRetries
\* attempts have failed in a row, it makes a reconnection attempt later on
\* (hist.lost is cleared by the callback of a reconnect timer, by an open
\* event and by the application's Connect and Close).
C23_LostConnectionIsRetried ==
    (hist.lost # "" /\ mgr.retryCount < maxRetries) ~> (hist.lost = "")

\* C26: at any time at most one reconnect timer is pending and at most one
\* socket of the manager is connecting or open.
C26_OneTimerOneSocket ==
    /\ Cardinality({ id \in Pending : timers[id] = "reconnect" }) <= 1
    /\ Cardinality(Live) <= 1

\* the messages the application has handed to SendMessage so far
Handed == { AppMessages[i] : i \in 1..hist.handed }

Elements(q) == { q[i] : i \in DOMAIN q }

\* C30: a message handed to SendMessage is on the wire or still waiting in
\* the queue (the bounds keep the queue far below the overflow limit, so
\* nothing is evicted), and the wire carries the messages in the order
\* they were handed over.
C30_QueuedMessagesAreTransmitted ==
    /\ \A msg \in Handed : msg \in Elements(wire) \/ msg \in Elements(mgr.messageQueue)
    /\ \A i, j \in DOMAIN wire :
          i < j => \E a, b \in DOMAIN AppMessages :
                      a < b /\ wire[i] = AppMessages[a] /\ wire[j] = AppMessages[b]

\* C24: of several StartGame requests for one game at most one succeeds: a
\* StartGame request that comes to its write when the game has already left
\* setup (another request has started it) fails there with
\* invalid_game_state and changes neither the game row nor the side-bet
\* and card records.
C24_OneStartGameSucceeds ==
    [][\A s \in Slots :
         ( /\ req[s].op = "StartGame"
           /\ req[s].pc = "sg_update"
           /\ Steps(s)
           /\ games[req[s].game].status # GameStatusSetup )
         => /\ Responds(s)
            /\ reply' = [op |-> "StartGame", code |-> "invalid_game_state"]
            /\ UNCHANGED dbvars]_vars

\* the rows of a table that belong to a game other than g
OutsideGame(rows, g) == { x \in rows : x.game_id # g }

\* C25: a request GameAuth has authenticated for game a leaves every row of
\* every other game as it is (games, players, scores, side-bet and card
\* records), the player ids it reads are ids of players of a, and it is not
\* answered with success when the player id of its path names a player of
\* another game -- whatever game id and player id its path carries.
C25_RequestsStayInTheirGame ==
    [][\A s \in Slots :
         (req[s].pc \notin {"idle", "auth"} /\ Steps(s))
         => LET a == req[s].game IN
            /\ \A b \in DOMAIN games : b # a => games'[b] = games[b]
            /\ OutsideGame(players', a) = OutsideGame(players, a)
            /\ OutsideGame(scores', a) = OutsideGame(scores, a)
            /\ OutsideGame(calcs', a) = OutsideGame(calcs, a)
            /\ OutsideGame(hands', a) = OutsideGame(hands, a)
            /\ \A e \in BagToSet(cards) \cup BagToSet(cards') :
                  e.game_id # a => CopiesIn(e, cards') = CopiesIn(e, cards)
            /\ req'[s].snap # req[s].snap
                  => \A i \in DOMAIN req'[s].snap : PlayerInGame(req'[s].snap[i], a)
            /\ ( /\ Responds(s)
                 /\ reply'.code = "ok"
                 /\ req[s].op \in PlayerOps )
                  => ~ \E p \in players : p.id = req[s].pid /\ p.game_id # a]_vars

\* the one request served so far asked, with the token of one game in
\* setup, for the removal of a player of the other game (every request of
\* this specification names a player that exists) and was told there is no
\* such player; all three players are still there
C25_Witness ==
    /\ reply = [op |-> "RemovePlayer", code |-> "resource_not_found"]
    /\ served = 1
    /\ \A g \in TwoGames : games[g].status = GameStatusSetup
    /\ Cardinality(players) = 3

Completes(b) == bc[b].pc = "write" /\ bc'[b].pc = "idle"

SpecHelper == ServerInit /\ [][HelperNext]_vars

\* C31: after Disconnect the helper opens no new connection on its own
\* until the application calls Connect again: while the application's last
\* call is Disconnect no step creates a WebSocket.
C31_NoConnectionAfterDisconnect ==
    [][(wss.disconnected /\ wss'.disconnected)
          => Len(wss'.socks) = Len(wss.socks)]_vars

\* C32: when a score write succeeds but the side-bet update that follows it
\* fails, the score stays persisted and is returned with the success status:
\* the step of a score handler whose side-bet update failed answers its
\* request with success and leaves the scores table as it is.
C32_ScoreSurvivesSideBetFailure ==
    [][\A s \in Slots :
          (req[s].pc = "sidebets" /\ Steps(s) /\ out'.warn)
          => /\ Responds(s)
             /\ reply' = [op |-> req[s].op, code |-> "ok"]
             /\ UNCHANGED dbvars]_vars

\* a RecordScore request was answered with success after its side-bet
\* update had failed, and the score it wrote is in the table
C32_Witness ==
    /\ out.warn
    /\ reply = [op |-> "RecordScore", code |-> "ok"]
    /\ scores # {}

\* C33: no event is broadcast for a request whose service call returned an
\* error: a handler that answers with an error has broadcast nothing.
C33_BroadcastOnlyAfterSuccess ==
    [][\A s \in Slots :
          (Responds(s) /\ reply'.code # "ok") => out'.event = ""]_vars

\* an AddPlayer request failed on the name of a player of the game and was
\* answered without a broadcast
C33_Witness ==
    /\ reply = [op |-> "AddPlayer", code |-> "duplicate_player_name"]
    /\ out.event = ""
    /\ players # {}

SpecUI == ServerInit /\ [][UINext]_vars

\* C34: the score-entry form accepts a (strokes, putts) pair exactly when
\* the server's RecordScore validation accepts it (strokes in 1..20, putts
\* in 0..10, putts <= strokes): after a submission with a player selected
\* and two numbers typed, the form went on to recordScore if and only if
\* validateScoreRequest finds no error for the current hole.
C34_FormAcceptsWhatServerAccepts ==
    (app.form.player # "" /\ ~Atoi(app.form.strokes).err /\ ~Atoi(app.form.putts).err)
        => (app.form.accepted <=>
              validateScoreRequest(app.currentHole, Atoi(app.form.strokes).n,
                                   Atoi(app.form.putts).n) = "")

\* C35: if the create-game call fails, the application does not enter
\* GameSetup, its loaded game is unchanged, the loading flag is cleared and
\* an error banner is shown.
C35_CreateFailureLeavesStateAlone ==
    [][CreateGameReturns(NilGame)
        => /\ app'.currentState # StateGameSetup
           /\ app'.currentGame = app.currentGame
           /\ ~app'.isLoading
           /\ app'.errorMessage # ""]_vars

\* C36: the current-hole cursor is always within 1..N, N the number of
\* holes of the loaded game's course (18 when no course is loaded).
C36_CursorWithinCourse ==
    app.currentHole >= 1 /\ app.currentHole <= maxHoles(app)

C36_Witness ==
    /\ ~app.currentGame.nil
    /\ app.currentGame.hasCourseInfo
    /\ app.currentHole = app.currentGame.holes
    /\ app.currentState = StateGameActive

\* a long series of SendMessage calls while no connection is established
QueueNext ==
    \/ AppSendSeries
    \/ AppConnect
    \/ AppClose

SpecQueue == ServerInit /\ [][QueueNext]_vars

\* C37: the outbound queue never holds more than 100 messages; enqueueing
\* onto a full queue discards exactly the oldest entry and keeps the others
\* in their order, the new message last.
C37_QueueBoundedDropsOldest ==
    /\ [](Len(mgr.messageQueue) <= MessageQueueLimit)
    /\ [][(Len(mgr.messageQueue) = MessageQueueLimit /\ hist'.handed = hist.handed + 1
             /\ mgr.state # "Connected")
            => mgr'.messageQueue =
                   Append(Tail(mgr.messageQueue), ToString(hist'.handed))]_vars

C37_Witness ==
    /\ Len(mgr.messageQueue) = MessageQueueLimit
    /\ Head(mgr.messageQueue) = "3"
    /\ mgr.messageQueue[MessageQueueLimit] = "102"
    /\ hist.handed = 102

\* a connection is lost and every reconnection fails
RetryInit ==
    /\ EmptyDB
    /\ NoRequests
    /\ RateInit
    /\ WSInit
    /\ ChainInit
    /\ AppInit
    /\ mgr = NewManager
    /\ socks = [ws \in 1..MaxRetrySockets |-> -1]
    /\ timers = [id \in 1..MaxRetryTimers |-> "unused"]
    /\ wire = <<>>
    /\ hist = NoHistory

\* the application connects once
FirstConnect == socks[1] = -1 /\ AppConnect

\* the first connection is established, no later one is
FirstSocketOpens == SocketOpens(1)

RetryNext ==
    \/ FirstConnect
    \/ FirstSocketOpens
    \/ \E ws \in DOMAIN socks : SocketFails(ws)
    \/ \E id \in DOMAIN timers : ReconnectTimerFires(id)

SpecRetry == RetryInit /\ [][RetryNext]_vars

SpecRecent == ServerInit /\ [][RecentNext]_vars

\* C39: after any sequence of AddRecentGame calls the stored list has at
\* most 10 entries, holds no game id twice, and is the ids in order of their
\* latest addition, the most recently added first (cut after the tenth).
C39_RecentGamesMostRecentFirst ==
    /\ Len(recent.ids) <= RecentLimit
    /\ \A i, j \in 1..Len(recent.ids) : recent.ids[i] = recent.ids[j] => i = j
    /\ recent.ids = SubSeq(recent.order, 1,
                           IF Len(recent.order) > RecentLimit THEN RecentLimit
                           ELSE Len(recent.order))

C39_Witness ==
    /\ Len(recent.order) = RecentLimit + 1
    /\ Len(recent.ids) = RecentLimit
    /\ recent.calls = Len(recent.order) + 1
    /\ recent.ids[1] < RecentLimit

SpecMigrate == ServerInit /\ [][MigrateNext]_vars

\* C40: a migration's version is recorded in the bookkeeping table if and
\* only if all of its statements have taken effect: in the committed
\* database a migration has all of its statements and its row or none of
\* them and no row, and no migration is committed a second time.
C40_RecordedIffApplied ==
    \A v \in {"001", "002"} :
        /\ v \in mig.rows <=> mig.applied[v] = Statements(v)
        /\ v \notin mig.rows => mig.applied[v] = 0
        /\ mig.commits[v] <= 1

\* a run failed partway through 001, and a later run applied and recorded it
C40_Witness ==
    /\ mig.failed.version = "001"
    /\ mig.failed.done > 0
    /\ mig.failed.done < SchemaStatements
    /\ mig.rows = {"001", "002"}
    /\ mig.runs = 3
    /\ mig.pc = "idle"
====
